---- MODULE Spec2Model ----
(***************************************************************************)
(* Triage pipeline of reddit-rss-collector: the POST /api/filter route     *)
(* (single-flight guard isTriaging), the batch runner triageNewPosts, the  *)
(* background runner startBackgroundTriage, the classifier client          *)
(* triagePost, and the operations that create or update posts.             *)
(*                                                                         *)
(* Node runs every handler to its next await without interruption, so one  *)
(* action is: the awaited operation completes and the continuation runs up *)
(* to the next await.  A datastore call takes effect at the step that      *)
(* resumes its caller.                                                     *)
(***************************************************************************)
EXTENDS Integers, Sequences, FiniteSets, TLC

\* ------------------------------------------------------------------ bounds
MaxPosts == 2            \* post ids 1..MaxPosts
MaxRequests == 2         \* concurrent HTTP connections to POST /api/filter
MaxLoops == 1            \* background loop activations that can coexist
MaxActivations == 2      \* the same, where only the background runner runs
MaxFaults == 1           \* datastore calls that may fail in one behaviour
MaxBatchSize == 2        \* largest FILTER_BATCH_SIZE of a deployment
MaxStatusPosts == 10     \* rows of the tables the status report is computed on
MaxCollections == 2      \* calls of collectAll that can overlap
MaxNicheRows == 3        \* rows of the posts table in the niche routes
MaxNicheCalls == 2       \* concurrent HTTP connections to POST /api/niches

PostIds == 1..MaxPosts
Requests == 1..MaxRequests
Loops == 1..MaxLoops
Activations == 1..MaxActivations

\* ------------------------------------------------------- nullable columns
Null == {}
Some(v) == {v}
The(s) == CHOOSE x \in s : TRUE

Max2(a, b) == IF a >= b THEN a ELSE b
Min2(a, b) == IF a <= b THEN a ELSE b

VARIABLES
  posts,                    \* the posts table: id -> row
  envKey,                   \* process.env.GEMINI_API_KEY is set (read at call time)
  GEMINI_API_KEY,           \* filter.ts:5, captured when the module is loaded
  TRIAGE_BATCH_SIZE,        \* filter.ts:6, parsed when the module is loaded
  isTriaging,               \* routes/filter.ts:7
  stopRequested,            \* filter.ts:10
  backgroundTriageRunning,  \* filter.ts:219
  runs,                     \* one record per POST /api/filter connection
  loops,                    \* one record per activation of startBackgroundTriage
  response,                 \* the HTTP response sent by the latest step
  faultsLeft,               \* datastore faults still allowed
  statusCall,               \* the queries of a GET /api/filter/status in flight
  collects,                 \* one record per call of collectAll
  subreddits,               \* the subreddits table: enabled, lastFetchedAt
  ev,                       \* the evaluation stage: its columns, flags, runs
  niches                    \* niche columns of the posts, POST /api/niches calls

vars == <<posts, envKey, GEMINI_API_KEY, TRIAGE_BATCH_SIZE, isTriaging,
          stopRequested,
          backgroundTriageRunning, runs, loops, response, faultsLeft,
          statusCall, collects, subreddits, ev, niches>>

config == <<envKey, GEMINI_API_KEY, TRIAGE_BATCH_SIZE>>
batchVars == <<isTriaging, stopRequested, runs>>
backgroundVars == <<backgroundTriageRunning, loops>>
\* the state of the handlers that take no part in a triage run
stageVars == <<ev, niches>>

sideVars == <<statusCall, collects, subreddits, stageVars>>

\* ------------------------------------------------------------- post rows
\* createdUtc of post p is p: a larger id is a newer post.
createdUtc(p) == p

\* subreddit: the subreddit the post comes from is in the subreddits table
AbsentRow ==
  [exists |-> FALSE, subreddit |-> TRUE, isFlagged |-> FALSE,
   isTriaged |-> FALSE, passedTriage |-> Null, triageScore |-> Null,
   triageReason |-> Null, triagedAt |-> Null]

\* collector.ts:86-98: the created row takes the schema defaults for triage
NewRow == [AbsentRow EXCEPT !.exists = TRUE]

\* ------------------------------------------------- classifier (triagePost)
\* A response of the model: thrown = generateContent or JSON.parse threw;
\* otherwise the parsed object, each member present (Some) or missing (Null).
\* score is in tenths, so 137 is 13.7.
ThrownResponse ==
  [thrown |-> TRUE, passedTriage |-> Null, score |-> Null, reason |-> Null]

ParsedResponses(scores, reasons) ==
  [thrown : {FALSE},
   passedTriage : {Null, Some(TRUE), Some(FALSE)},
   score : {Null} \cup {Some(t) : t \in scores},
   reason : {Null} \cup {Some(s) : s \in reasons}]

\* filter.ts:43  required: ["passedTriage", "score", "reason"]
MissingMember(parsed) ==
  parsed.passedTriage = Null \/ parsed.score = Null \/ parsed.reason = Null

\* Math.round on tenths: nearest integer, halves toward +infinity
MathRound(t) == (t + 5) \div 10

NaN == Null

\* filter.ts:107  Math.max(0, Math.min(10, Math.round(parsed.score)))
NormalizeScore(score) ==
  IF score = Null THEN NaN
  ELSE Some(Max2(0, Min2(10, MathRound(The(score)))))

\* filter.ts:108  String(parsed.reason || "").substring(0, 500)
NormalizeReason(reason) ==
  IF reason = Null THEN "" ELSE The(reason)

\* filter.ts:105-109
TriageResult(parsed) ==
  [passedTriage |-> (parsed.passedTriage = Some(TRUE)),
   score |-> NormalizeScore(parsed.score),
   reason |-> NormalizeReason(parsed.reason)]

NoResult == [passedTriage |-> FALSE, score |-> Null, reason |-> ""]

\* ------------------------------------------------------ datastore updates
\* mutant: the update replaces the row, so columns it does not name go back
\* to their defaults
ClassifiedData_ReplacesRow(row, result) ==
  [row EXCEPT !.isFlagged = FALSE,
              !.isTriaged = TRUE,
              !.passedTriage = Some(result.passedTriage),
              !.triageScore = result.score,
              !.triageReason = Some(result.reason),
              !.triagedAt = Some("now")]

\* filter.ts:151-160 and 255-264.  A NaN score is not an INTEGER value: the
\* datastore client either stores NULL for it or rejects the update.
ClassifiedData(row, result) ==
  [row EXCEPT !.isTriaged = TRUE,
              !.passedTriage = Some(result.passedTriage),
              !.triageScore = result.score,
              !.triageReason = Some(result.reason),
              !.triagedAt = Some("now")]

\* mutant: the failed record leaves the post in the pending queue
FailedData_LeavesPending(row) ==
  [row EXCEPT !.isTriaged = FALSE,
              !.passedTriage = Null,
              !.triageScore = Null,
              !.triageReason = Some("Triage failed"),
              !.triagedAt = Some("now")]

\* filter.ts:174-183 and 271-280
FailedData(row) ==
  [row EXCEPT !.isTriaged = TRUE,
              !.passedTriage = Null,
              !.triageScore = Null,
              !.triageReason = Some("Triage failed"),
              !.triagedAt = Some("now")]

\* where: { isTriaged: false }
PendingIds(ps) == {p \in DOMAIN ps : ps[p].exists /\ ~ps[p].isTriaged}

RECURSIVE NewestFirst_Ascending(_)
\* mutant: orderBy: { createdUtc: "asc" }
NewestFirst_Ascending(S) ==
  IF S = {} THEN <<>>
  ELSE LET m == CHOOSE x \in S : \A y \in S : createdUtc(x) <= createdUtc(y)
       IN <<m>> \o NewestFirst_Ascending(S \ {m})

RECURSIVE NewestFirst(_)
\* orderBy: { createdUtc: "desc" }
NewestFirst(S) ==
  IF S = {} THEN <<>>
  ELSE LET m == CHOOSE x \in S : \A y \in S : createdUtc(y) <= createdUtc(x)
       IN <<m>> \o NewestFirst(S \ {m})

Take(s, n) == SubSeq(s, 1, Min2(n, Len(s)))

\* mutant: the page query without its where clause
findMany_NoFilter(ps) ==
  Take(NewestFirst({p \in DOMAIN ps : ps[p].exists}), TRIAGE_BATCH_SIZE)

\* filter.ts:131-136  prisma.post.findMany
findMany(ps) == Take(NewestFirst(PendingIds(ps)), TRIAGE_BATCH_SIZE)

\* filter.ts:241-245  prisma.post.findFirst
findFirst(ps) == Take(NewestFirst(PendingIds(ps)), 1)

\* ------------------------------------------------ batch run (one request)
\* pc is the await the request is suspended at:
\*   "idle"       no request on this connection
\*   "fetch"      filter.ts:131  await prisma.post.findMany
\*   "classify"   filter.ts:99   await model.generateContent
\*   "writeOk"    filter.ts:151  await prisma.post.update (classified)
\*   "sleep"      filter.ts:171  await setTimeout 100
\*   "writeFail"  filter.ts:174  await prisma.post.update (failed)
\*   "responded"  the handler has sent its response (status, result)
\* page/idx: the fetched page and the position of the post being processed.
\* fetches, wrote, startTriaged, missing record what the request did: the
\* number of findMany calls, the posts it updated (in order), the posts that
\* were already triaged when the run started, and whether the answer being
\* persisted lacked a required member.
IdleRun ==
  [pc |-> "idle", page |-> <<>>, idx |-> 0, triaged |-> 0, passed |-> 0,
   result |-> NoResult, missing |-> FALSE, status |-> 0, stopped |-> FALSE,
   fetches |-> 0, wrote |-> <<>>, startTriaged |-> {}]

\* response: route "filter" (POST /api/filter, with the request it answers
\* and, for status 200, the result) or "stop" (POST /api/filter/stop); a
\* step that sends nothing leaves NoResponse
NoResponse ==
  [route |-> "none", req |-> 0, status |-> 0, triaged |-> 0, passed |-> 0,
   stopped |-> FALSE]

ActivePcs == {"fetch", "classify", "writeOk", "sleep", "writeFail"}

ActiveRuns == {r \in Requests : runs[r].pc \in ActivePcs}

\* mutant: the result always reports a stopped run
Return_Stopped(run) ==
  [run EXCEPT !.pc = "responded", !.status = 200, !.stopped = TRUE]

\* filter.ts:189  return { triaged, passed, stopped: stopRequested }
Return(run) ==
  [run EXCEPT !.pc = "responded", !.status = 200, !.stopped = stopRequested]

\* routes/filter.ts:33-38: an error thrown out of triageNewPosts
Throw(run) ==
  [run EXCEPT !.pc = "responded", !.status = 500,
              !.triaged = 0, !.passed = 0, !.stopped = FALSE]

\* filter.ts:131: the findMany call is issued
IssueFetch(run) ==
  [run EXCEPT !.pc = "fetch", !.fetches = @ + 1, !.page = <<>>, !.idx = 0]

\* mutant: while (true), the page loop ignores the stop flag
WhileCheck_NoStopCheck(run) ==
  IssueFetch(run)

\* mutant: the single-page runner, which returns after its first page
WhileCheck_SinglePage(run) ==
  Return(run)

\* filter.ts:130  while (!stopRequested)
WhileCheck(run) ==
  IF stopRequested THEN Return(run) ELSE IssueFetch(run)

\* filter.ts:149 with 83-99: triagePost runs up to generateContent; the throw
\* of line 84 lands in the catch of line 172, which issues the failed update
CallTriagePost(run) ==
  IF GEMINI_API_KEY THEN [run EXCEPT !.pc = "classify"]
  ELSE [run EXCEPT !.pc = "writeFail"]

\* mutant: the for loop without the stop check of lines 143-146
NextIteration_NoStopCheck(run) ==
  IF run.idx < Len(run.page)
  THEN CallTriagePost([run EXCEPT !.idx = @ + 1])
  ELSE WhileCheck(run)

\* filter.ts:142-146: the for loop moves past page[idx]
NextIteration(run) ==
  IF run.idx < Len(run.page)
  THEN IF stopRequested THEN WhileCheck(run)
       ELSE CallTriagePost([run EXCEPT !.idx = @ + 1])
  ELSE WhileCheck(run)

\* mutant: isTriaging is reset after the success response only, not in a
\* finally block
Settle_NoFinally(r, run) ==
  IF run.pc = "responded"
  THEN /\ runs' = [runs EXCEPT ![r] = IdleRun]
       /\ response' = [route |-> "filter", req |-> r, status |-> run.status,
                       triaged |-> run.triaged, passed |-> run.passed,
                       stopped |-> run.stopped]
       /\ isTriaging' = (run.status # 200)
  ELSE /\ runs' = [runs EXCEPT ![r] = run]
       /\ response' = NoResponse
       /\ UNCHANGED isTriaging

\* routes/filter.ts:29-41: res.json / res.status(..).json, then
\* finally { isTriaging = false }; a request still suspended keeps its state
Settle(r, run) ==
  IF run.pc = "responded"
  THEN /\ runs' = [runs EXCEPT ![r] = IdleRun]
       /\ response' = [route |-> "filter", req |-> r, status |-> run.status,
                       triaged |-> run.triaged, passed |-> run.passed,
                       stopped |-> run.stopped]
       /\ isTriaging' = FALSE
  ELSE /\ runs' = [runs EXCEPT ![r] = run]
       /\ response' = NoResponse
       /\ UNCHANGED isTriaging

TriagedIds(ps) == {p \in DOMAIN ps : ps[p].exists /\ ps[p].isTriaged}

\* mutant: the route without the isTriaging guard of lines 11-16
PostFilter_NoGuard(r) ==
  /\ runs[r].pc = "idle"
  /\ IF ~envKey \/ ~GEMINI_API_KEY
     THEN /\ response' = [NoResponse EXCEPT !.route = "filter", !.req = r,
                                             !.status = 500]
          /\ UNCHANGED <<isTriaging, stopRequested, runs>>
     ELSE /\ isTriaging' = TRUE
          /\ stopRequested' = FALSE
          /\ runs' = [runs EXCEPT ![r] =
                        IssueFetch([IdleRun EXCEPT
                                      !.startTriaged = TriagedIds(posts)])]
          /\ response' = NoResponse
  /\ UNCHANGED <<posts, config, sideVars, backgroundVars, faultsLeft>>

\* mutant: the stop flag is cleared on entry to the route, before the guard
PostFilter_ClearsStop(r) ==
  /\ runs[r].pc = "idle"
  /\ stopRequested' = FALSE
  /\ IF isTriaging
     THEN /\ response' = [NoResponse EXCEPT !.route = "filter", !.req = r,
                                             !.status = 409]
          /\ UNCHANGED <<isTriaging, runs>>
     ELSE IF ~envKey \/ ~GEMINI_API_KEY
     THEN /\ response' = [NoResponse EXCEPT !.route = "filter", !.req = r,
                                             !.status = 500]
          /\ UNCHANGED <<isTriaging, runs>>
     ELSE /\ isTriaging' = TRUE
          /\ runs' = [runs EXCEPT ![r] =
                        IssueFetch([IdleRun EXCEPT
                                      !.startTriaged = TriagedIds(posts)])]
          /\ response' = NoResponse
  /\ UNCHANGED <<posts, config, sideVars, backgroundVars, faultsLeft>>

\* routes/filter.ts:10-28 up to the first await of triageNewPosts
\* (filter.ts:116-131)
PostFilter(r) ==
  /\ runs[r].pc = "idle"
  /\ IF isTriaging
     THEN /\ response' = [NoResponse EXCEPT !.route = "filter", !.req = r,
                                             !.status = 409]
          /\ UNCHANGED <<isTriaging, stopRequested, runs>>
     ELSE IF ~envKey \/ ~GEMINI_API_KEY
     THEN /\ response' = [NoResponse EXCEPT !.route = "filter", !.req = r,
                                             !.status = 500]
          /\ UNCHANGED <<isTriaging, stopRequested, runs>>
     ELSE /\ isTriaging' = TRUE
          /\ stopRequested' = FALSE
          /\ runs' = [runs EXCEPT ![r] =
                        IssueFetch([IdleRun EXCEPT
                                      !.startTriaged = TriagedIds(posts)])]
          /\ response' = NoResponse
  /\ UNCHANGED <<posts, config, sideVars, backgroundVars, faultsLeft>>

\* mutant: a rejected findMany is swallowed and the run returns its counters
FetchDone_ReportsSuccess(r) ==
  /\ runs[r].pc = "fetch"
  /\ \/ /\ faultsLeft > 0
        /\ faultsLeft' = faultsLeft - 1
        /\ Settle(r, Return(runs[r]))
     \/ /\ UNCHANGED faultsLeft
        /\ LET page == findMany(posts) IN
           Settle(r, IF page = <<>> THEN Return(runs[r])
                     ELSE NextIteration([runs[r] EXCEPT !.page = page,
                                                        !.idx = 0]))
  /\ UNCHANGED <<posts, config, sideVars, stopRequested, backgroundVars>>

\* mutant: the stop flag is cleared when the page fetch resolves, after the
\* first suspension of the run instead of before it
FetchDone_ClearsStop(r) ==
  /\ runs[r].pc = "fetch"
  /\ \/ /\ faultsLeft > 0
        /\ faultsLeft' = faultsLeft - 1
        /\ Settle(r, Throw(runs[r]))
     \/ /\ UNCHANGED faultsLeft
        /\ LET page == findMany(posts) IN
           Settle(r, IF page = <<>> THEN Return(runs[r])
                     ELSE NextIteration([runs[r] EXCEPT !.page = page,
                                                        !.idx = 0]))
  /\ stopRequested' = FALSE
  /\ UNCHANGED <<posts, config, sideVars, backgroundVars>>

\* filter.ts:131-146: findMany resolves or rejects
FetchDone(r) ==
  /\ runs[r].pc = "fetch"
  /\ \/ /\ faultsLeft > 0
        /\ faultsLeft' = faultsLeft - 1
        /\ Settle(r, Throw(runs[r]))
     \/ /\ UNCHANGED faultsLeft
        /\ LET page == findMany(posts) IN
           Settle(r, IF page = <<>> THEN Return(runs[r])
                     ELSE NextIteration([runs[r] EXCEPT !.page = page,
                                                        !.idx = 0]))
  /\ UNCHANGED <<posts, config, sideVars, stopRequested, backgroundVars>>

\* mutant: the post is marked triaged as soon as the classifier has answered,
\* before the update that stores the result
ClassifyDone_WritesFirst(r, resp) ==
  /\ runs[r].pc = "classify"
  /\ runs' = [runs EXCEPT ![r] =
                IF resp.thrown THEN [@ EXCEPT !.pc = "writeFail"]
                ELSE [@ EXCEPT !.pc = "writeOk",
                               !.result = TriageResult(resp),
                               !.missing = MissingMember(resp)]]
  /\ posts' = [posts EXCEPT ![runs[r].page[runs[r].idx]] =
                  [@ EXCEPT !.isTriaged = TRUE]]
  /\ response' = NoResponse
  /\ UNCHANGED <<config, sideVars, isTriaging, stopRequested, backgroundVars,
                 faultsLeft>>

\* filter.ts:99-113 and 149: generateContent resolves with resp or throws
ClassifyDone(r, resp) ==
  /\ runs[r].pc = "classify"
  /\ runs' = [runs EXCEPT ![r] =
                IF resp.thrown THEN [@ EXCEPT !.pc = "writeFail"]
                ELSE [@ EXCEPT !.pc = "writeOk",
                               !.result = TriageResult(resp),
                               !.missing = MissingMember(resp)]]
  /\ response' = NoResponse
  /\ UNCHANGED <<posts, config, sideVars, isTriaging, stopRequested, backgroundVars,
                 faultsLeft>>

\* filter.ts:151-171: the classified update resolves (counters, then the
\* delay is issued) or rejects (catch: the failed update is issued)
WriteOkDone(r) ==
  /\ runs[r].pc = "writeOk"
  /\ LET run == runs[r]
         p == run.page[run.idx]
     IN \/ /\ posts[p].exists
           /\ UNCHANGED faultsLeft
           /\ posts' = [posts EXCEPT ![p] = ClassifiedData(@, run.result)]
           /\ runs' = [runs EXCEPT ![r] =
                         [run EXCEPT !.pc = "sleep",
                                     !.triaged = @ + 1,
                                     !.passed = IF run.result.passedTriage
                                                THEN @ + 1 ELSE @,
                                     !.wrote = Append(@, p),
                                     !.result = NoResult,
                                     !.missing = FALSE]]
        \/ /\ \/ faultsLeft > 0 /\ faultsLeft' = faultsLeft - 1
              \/ run.result.score = NaN /\ UNCHANGED faultsLeft
              \/ ~posts[p].exists /\ UNCHANGED faultsLeft
           /\ runs' = [runs EXCEPT ![r] =
                         [run EXCEPT !.pc = "writeFail", !.result = NoResult,
                                     !.missing = FALSE]]
           /\ UNCHANGED posts
  /\ response' = NoResponse
  /\ UNCHANGED <<config, sideVars, isTriaging, stopRequested, backgroundVars>>

\* filter.ts:171 then 142: the delay elapses
SleepDone(r) ==
  /\ runs[r].pc = "sleep"
  /\ Settle(r, NextIteration(runs[r]))
  /\ UNCHANGED <<posts, config, sideVars, stopRequested, backgroundVars, faultsLeft>>

\* mutant: the catch block counts the failed post as passed too
WriteFailDone_CountsPassed(r) ==
  /\ runs[r].pc = "writeFail"
  /\ LET run == runs[r]
         p == run.page[run.idx]
     IN \/ /\ \/ faultsLeft > 0 /\ faultsLeft' = faultsLeft - 1
              \/ ~posts[p].exists /\ UNCHANGED faultsLeft
           /\ Settle(r, Throw(run))
           /\ UNCHANGED posts
        \/ /\ posts[p].exists
           /\ UNCHANGED faultsLeft
           /\ posts' = [posts EXCEPT ![p] = FailedData(@)]
           /\ Settle(r, NextIteration([run EXCEPT !.triaged = @ + 1,
                                                  !.passed = @ + 1,
                                                  !.wrote = Append(@, p)]))
  /\ UNCHANGED <<config, sideVars, stopRequested, backgroundVars>>

\* filter.ts:174-184 then 142: the failed update resolves, or rejects and
\* the error leaves triageNewPosts
WriteFailDone(r) ==
  /\ runs[r].pc = "writeFail"
  /\ LET run == runs[r]
         p == run.page[run.idx]
     IN \/ /\ \/ faultsLeft > 0 /\ faultsLeft' = faultsLeft - 1
              \/ ~posts[p].exists /\ UNCHANGED faultsLeft
           /\ Settle(r, Throw(run))
           /\ UNCHANGED posts
        \/ /\ posts[p].exists
           /\ UNCHANGED faultsLeft
           /\ posts' = [posts EXCEPT ![p] = FailedData(@)]
           /\ Settle(r, NextIteration([run EXCEPT !.triaged = @ + 1,
                                                  !.wrote = Append(@, p)]))
  /\ UNCHANGED <<config, sideVars, stopRequested, backgroundVars>>

\* filter.ts:12-14
requestStop == stopRequested' = TRUE

\* mutant: the stop route without the isTriaging guard of lines 62-67
PostStop_NoGuard ==
  /\ requestStop
  /\ response' = [NoResponse EXCEPT !.route = "stop", !.status = 200]
  /\ UNCHANGED <<posts, config, sideVars, isTriaging, runs, backgroundVars, faultsLeft>>

\* routes/filter.ts:61-74  POST /api/filter/stop
PostStop ==
  /\ IF ~isTriaging
     THEN /\ response' = [NoResponse EXCEPT !.route = "stop", !.status = 400]
          /\ UNCHANGED stopRequested
     ELSE /\ requestStop
          /\ response' = [NoResponse EXCEPT !.route = "stop", !.status = 200]
  /\ UNCHANGED <<posts, config, sideVars, isTriaging, runs, backgroundVars, faultsLeft>>

\* ------------------------------------------------------ background runner
\* pc of one activation of startBackgroundTriage:
\*   "none"       not started, or the while loop of line 239 was left
\*   "fetch"      filter.ts:241  await prisma.post.findFirst
\*   "classify"   filter.ts:99   await model.generateContent
\*   "writeOk"    filter.ts:255  await prisma.post.update (classified)
\*   "writeFail"  filter.ts:271  await prisma.post.update (failed)
\*   "idleSleep"  filter.ts:248  await setTimeout 30000
\*   "postSleep"  filter.ts:283  await setTimeout 200
\*   "errSleep"   filter.ts:286  await setTimeout 5000
\* stopCalled records that stopBackgroundTriage was called while this
\* activation was in its loop.
NoLoop ==
  [pc |-> "none", post |-> Null, result |-> NoResult, stopCalled |-> FALSE]

SleepPcs == {"idleSleep", "postSleep", "errSleep"}

\* filter.ts:253 with 83-99, and the catch of line 269
BgCallTriagePost(loop, p) ==
  IF GEMINI_API_KEY THEN [loop EXCEPT !.pc = "classify", !.post = Some(p)]
  ELSE [loop EXCEPT !.pc = "writeFail", !.post = Some(p)]

\* filter.ts:239  while (backgroundTriageRunning)
BgWhileCheck(loop) ==
  IF backgroundTriageRunning
  THEN [NoLoop EXCEPT !.pc = "fetch", !.stopCalled = loop.stopCalled]
  ELSE NoLoop

\* mutant: no check of the credential (lines 226-229)
startBackgroundTriage_NoKeyCheck(l) ==
  /\ IF backgroundTriageRunning
     THEN UNCHANGED <<backgroundTriageRunning, loops>>
     ELSE /\ loops[l].pc = "none"
          /\ backgroundTriageRunning' = TRUE
          /\ loops' = [loops EXCEPT ![l] = [NoLoop EXCEPT !.pc = "fetch"]]
  /\ response' = NoResponse
  /\ UNCHANGED <<posts, config, sideVars, batchVars, faultsLeft>>

\* mutant: no check of backgroundTriageRunning (lines 231-234)
startBackgroundTriage_NoRunningCheck(l) ==
  /\ IF ~envKey
     THEN UNCHANGED <<backgroundTriageRunning, loops>>
     ELSE /\ loops[l].pc = "none"
          /\ backgroundTriageRunning' = TRUE
          /\ loops' = [loops EXCEPT ![l] = [NoLoop EXCEPT !.pc = "fetch"]]
  /\ response' = NoResponse
  /\ UNCHANGED <<posts, config, sideVars, batchVars, faultsLeft>>

\* filter.ts:225-241: the call returns at line 228 or 233, or enters the
\* loop as activation l up to its first findFirst
startBackgroundTriage(l) ==
  /\ IF ~envKey \/ backgroundTriageRunning
     THEN UNCHANGED <<backgroundTriageRunning, loops>>
     ELSE /\ loops[l].pc = "none"
          /\ backgroundTriageRunning' = TRUE
          /\ loops' = [loops EXCEPT ![l] = [NoLoop EXCEPT !.pc = "fetch"]]
  /\ response' = NoResponse
  /\ UNCHANGED <<posts, config, sideVars, batchVars, faultsLeft>>

\* mutant: stopping the background runner also requests the batch stop
stopBackgroundTriage_AlsoStopsBatch ==
  /\ backgroundTriageRunning' = FALSE
  /\ requestStop
  /\ loops' = [l \in DOMAIN loops |->
                 IF loops[l].pc = "none" THEN loops[l]
                 ELSE [loops[l] EXCEPT !.stopCalled = TRUE]]
  /\ response' = NoResponse
  /\ UNCHANGED <<posts, config, sideVars, isTriaging, runs, faultsLeft>>

\* filter.ts:293-295
stopBackgroundTriage ==
  /\ backgroundTriageRunning' = FALSE
  /\ loops' = [l \in DOMAIN loops |->
                 IF loops[l].pc = "none" THEN loops[l]
                 ELSE [loops[l] EXCEPT !.stopCalled = TRUE]]
  /\ response' = NoResponse
  /\ UNCHANGED <<posts, config, sideVars, batchVars, faultsLeft>>

\* mutant: the findFirst call outside the try block, so that its rejection
\* ends the activation
BgFetchDone_NoCatch(l) ==
  /\ loops[l].pc = "fetch"
  /\ \/ /\ faultsLeft > 0
        /\ faultsLeft' = faultsLeft - 1
        /\ loops' = [loops EXCEPT ![l] = NoLoop]
     \/ /\ UNCHANGED faultsLeft
        /\ LET found == findFirst(posts) IN
           loops' = [loops EXCEPT ![l] =
                       IF found = <<>> THEN [@ EXCEPT !.pc = "idleSleep"]
                       ELSE BgCallTriagePost(@, found[1])]
  /\ response' = NoResponse
  /\ UNCHANGED <<posts, config, sideVars, batchVars, backgroundTriageRunning>>

\* filter.ts:241-253: findFirst resolves, or rejects into the catch of 284
BgFetchDone(l) ==
  /\ loops[l].pc = "fetch"
  /\ \/ /\ faultsLeft > 0
        /\ faultsLeft' = faultsLeft - 1
        /\ loops' = [loops EXCEPT ![l] = [@ EXCEPT !.pc = "errSleep"]]
     \/ /\ UNCHANGED faultsLeft
        /\ LET found == findFirst(posts) IN
           loops' = [loops EXCEPT ![l] =
                       IF found = <<>> THEN [@ EXCEPT !.pc = "idleSleep"]
                       ELSE BgCallTriagePost(@, found[1])]
  /\ response' = NoResponse
  /\ UNCHANGED <<posts, config, sideVars, batchVars, backgroundTriageRunning>>

\* filter.ts:99-113 and 253
BgClassifyDone(l, resp) ==
  /\ loops[l].pc = "classify"
  /\ loops' = [loops EXCEPT ![l] =
                 IF resp.thrown THEN [@ EXCEPT !.pc = "writeFail"]
                 ELSE [@ EXCEPT !.pc = "writeOk",
                                !.result = TriageResult(resp)]]
  /\ response' = NoResponse
  /\ UNCHANGED <<posts, config, sideVars, batchVars, backgroundTriageRunning, faultsLeft>>

\* filter.ts:255-283
BgWriteOkDone(l) ==
  /\ loops[l].pc = "writeOk"
  /\ LET loop == loops[l]
         p == The(loop.post)
     IN \/ /\ posts[p].exists
           /\ UNCHANGED faultsLeft
           /\ posts' = [posts EXCEPT ![p] = ClassifiedData(@, loop.result)]
           /\ loops' = [loops EXCEPT ![l] =
                          [loop EXCEPT !.pc = "postSleep", !.post = Null,
                                       !.result = NoResult]]
        \/ /\ \/ faultsLeft > 0 /\ faultsLeft' = faultsLeft - 1
              \/ loop.result.score = NaN /\ UNCHANGED faultsLeft
              \/ ~posts[p].exists /\ UNCHANGED faultsLeft
           /\ loops' = [loops EXCEPT ![l] =
                          [loop EXCEPT !.pc = "writeFail", !.result = NoResult]]
           /\ UNCHANGED posts
  /\ response' = NoResponse
  /\ UNCHANGED <<config, sideVars, batchVars, backgroundTriageRunning>>

\* filter.ts:271-286
BgWriteFailDone(l) ==
  /\ loops[l].pc = "writeFail"
  /\ LET loop == loops[l]
         p == The(loop.post)
     IN \/ /\ \/ faultsLeft > 0 /\ faultsLeft' = faultsLeft - 1
              \/ ~posts[p].exists /\ UNCHANGED faultsLeft
           /\ loops' = [loops EXCEPT ![l] =
                          [loop EXCEPT !.pc = "errSleep", !.post = Null,
                                       !.result = NoResult]]
           /\ UNCHANGED posts
        \/ /\ posts[p].exists
           /\ UNCHANGED faultsLeft
           /\ posts' = [posts EXCEPT ![p] = FailedData(@)]
           /\ loops' = [loops EXCEPT ![l] =
                          [loop EXCEPT !.pc = "postSleep", !.post = Null,
                                       !.result = NoResult]]
  /\ response' = NoResponse
  /\ UNCHANGED <<config, sideVars, batchVars, backgroundTriageRunning>>

\* mutant: the activation ends after a delay, without polling again
BgSleepDone_NoRepoll(l) ==
  /\ loops[l].pc \in SleepPcs
  /\ loops' = [loops EXCEPT ![l] = NoLoop]
  /\ response' = NoResponse
  /\ UNCHANGED <<posts, config, sideVars, batchVars, backgroundTriageRunning, faultsLeft>>

\* filter.ts:248-249, 283, 286 then 239: a delay elapses
BgSleepDone(l) ==
  /\ loops[l].pc \in SleepPcs
  /\ loops' = [loops EXCEPT ![l] = BgWhileCheck(@)]
  /\ response' = NoResponse
  /\ UNCHANGED <<posts, config, sideVars, batchVars, backgroundTriageRunning, faultsLeft>>

\* ------------------------------------------------- evaluation-stage pipeline
\* The evaluation stage (filterNewPosts / startBackgroundFilter and its
\* routes) with its state in one record, ev:
\*   posts                    the evaluation columns of the posts table
\*   isFiltering              evaluation routes, line 84
\*   stopRequested            evaluation filter, line 10
\*   backgroundFilterRunning  evaluation filter, line 228
\*   runs, loops, response, faultsLeft   as for the triage stage
\*   lead                     "eval" after a step that the evaluation stage
\*                            took first, "none" otherwise
\* A step of the stage is given as the set of the states it can lead to.
EvAbsentRow ==
  [exists |-> FALSE, isEvaluated |-> FALSE, isOpportunity |-> Null,
   opportunityScore |-> Null, opportunityReason |-> Null,
   evaluatedAt |-> Null]

EvNewRow == [EvAbsentRow EXCEPT !.exists = TRUE]

EvNoResult == [isOpportunity |-> FALSE, score |-> Null, reason |-> ""]

\* evaluation filter, lines 107-111
EvaluationResult(parsed) ==
  [isOpportunity |-> (parsed.isOpportunity = Some(TRUE)),
   score |-> NormalizeScore(parsed.score),
   reason |-> NormalizeReason(parsed.reason)]

\* evaluation filter, lines 158-167 and 267-276
EvaluatedData(row, result) ==
  [row EXCEPT !.isEvaluated = TRUE,
              !.isOpportunity = Some(result.isOpportunity),
              !.opportunityScore = result.score,
              !.opportunityReason = Some(result.reason),
              !.evaluatedAt = Some("now")]

\* mutant: the failed record of an older revision, which left the post
\* unevaluated so that it was tried again
EvFailedData_Retry(row) ==
  [row EXCEPT !.isEvaluated = FALSE,
              !.isOpportunity = Null,
              !.opportunityScore = Null,
              !.opportunityReason = Some("Evaluation failed"),
              !.evaluatedAt = Some("now")]

\* evaluation filter, lines 183-192 and 284-293
EvFailedData(row) ==
  [row EXCEPT !.isEvaluated = TRUE,
              !.isOpportunity = Null,
              !.opportunityScore = Null,
              !.opportunityReason = Some("Evaluation failed"),
              !.evaluatedAt = Some("now")]

EvPendingIds(ps) == {p \in DOMAIN ps : ps[p].exists /\ ~ps[p].isEvaluated}

\* evaluation filter, lines 136-141: where isEvaluated false, orderBy
\* createdUtc desc, take FILTER_BATCH_SIZE (parsed from the environment
\* variable that TRIAGE_BATCH_SIZE is parsed from)
EvFindMany(ps) == Take(NewestFirst(EvPendingIds(ps)), TRIAGE_BATCH_SIZE)

\* evaluation filter, lines 251-255
EvFindFirst(ps) == Take(NewestFirst(EvPendingIds(ps)), 1)

EvIdleRun ==
  [pc |-> "idle", page |-> <<>>, idx |-> 0, evaluated |-> 0,
   opportunities |-> 0, result |-> EvNoResult, status |-> 0,
   stopped |-> FALSE]

EvNoLoop == [pc |-> "none", post |-> Null, result |-> EvNoResult]

EvNoResponse ==
  [route |-> "none", req |-> 0, status |-> 0, evaluated |-> 0,
   opportunities |-> 0, stopped |-> FALSE]

EvInit ==
  [posts |-> [p \in PostIds |-> EvAbsentRow], isFiltering |-> FALSE,
   stopRequested |-> FALSE, backgroundFilterRunning |-> FALSE,
   runs |-> [r \in Requests |-> EvIdleRun],
   loops |-> [l \in Loops |-> EvNoLoop], response |-> EvNoResponse,
   faultsLeft |-> MaxFaults, lead |-> "none"]

\* evaluation filter, line 198
EvReturn(e, run) ==
  [run EXCEPT !.pc = "responded", !.status = 200,
              !.stopped = e.stopRequested]

\* evaluation routes, lines 110-115
EvThrow(run) ==
  [run EXCEPT !.pc = "responded", !.status = 500, !.evaluated = 0,
              !.opportunities = 0, !.stopped = FALSE]

\* evaluation filter, line 136
EvIssueFetch(run) == [run EXCEPT !.pc = "fetch", !.page = <<>>, !.idx = 0]

\* evaluation filter, line 134  while (!stopRequested)
EvWhileCheck(e, run) ==
  IF e.stopRequested THEN EvReturn(e, run) ELSE EvIssueFetch(run)

\* evaluation filter, line 156 with 83-99
EvCallEvaluatePost(run) ==
  IF GEMINI_API_KEY THEN [run EXCEPT !.pc = "classify"]
  ELSE [run EXCEPT !.pc = "writeFail"]

\* evaluation filter, lines 148-153
EvNextIteration(e, run) ==
  IF run.idx < Len(run.page)
  THEN IF e.stopRequested THEN EvWhileCheck(e, run)
       ELSE EvCallEvaluatePost([run EXCEPT !.idx = @ + 1])
  ELSE EvWhileCheck(e, run)

\* evaluation routes, lines 104-118
EvSettle(e, r, run) ==
  IF run.pc = "responded"
  THEN [e EXCEPT !.runs[r] = EvIdleRun,
                 !.response = [route |-> "filter", req |-> r,
                               status |-> run.status,
                               evaluated |-> run.evaluated,
                               opportunities |-> run.opportunities,
                               stopped |-> run.stopped],
                 !.isFiltering = FALSE]
  ELSE [e EXCEPT !.runs[r] = run, !.response = EvNoResponse]

\* a datastore call is rejected: one fault fewer is left
EvFault(e) == [e EXCEPT !.faultsLeft = @ - 1]

\* evaluation routes, lines 87-104, up to the first await of filterNewPosts
\* (evaluation filter, lines 118-136)
EvPostFilter(e, r) ==
  IF e.runs[r].pc # "idle" THEN {}
  ELSE IF e.isFiltering
  THEN {[e EXCEPT !.response = [EvNoResponse EXCEPT !.route = "filter",
                                                    !.req = r,
                                                    !.status = 409]]}
  ELSE IF ~envKey \/ ~GEMINI_API_KEY
  THEN {[e EXCEPT !.response = [EvNoResponse EXCEPT !.route = "filter",
                                                    !.req = r,
                                                    !.status = 500]]}
  ELSE {[e EXCEPT !.isFiltering = TRUE, !.stopRequested = FALSE,
                  !.runs[r] = EvIssueFetch(EvIdleRun),
                  !.response = EvNoResponse]}

\* evaluation filter, lines 136-153
EvFetchDone(e, r) ==
  IF e.runs[r].pc # "fetch" THEN {}
  ELSE (IF e.faultsLeft > 0
        THEN {EvSettle(EvFault(e), r, EvThrow(e.runs[r]))} ELSE {})
       \cup
       {LET page == EvFindMany(e.posts) IN
        EvSettle(e, r, IF page = <<>> THEN EvReturn(e, e.runs[r])
                       ELSE EvNextIteration(e, [e.runs[r] EXCEPT
                                                  !.page = page,
                                                  !.idx = 0]))}

\* evaluation filter, lines 99-116 and 156
EvClassifyDone(e, r, resp) ==
  IF e.runs[r].pc # "classify" THEN {}
  ELSE {[e EXCEPT !.runs[r] =
                    IF resp.thrown THEN [@ EXCEPT !.pc = "writeFail"]
                    ELSE [@ EXCEPT !.pc = "writeOk",
                                   !.result = EvaluationResult(resp)],
                  !.response = EvNoResponse]}

\* evaluation filter, lines 158-180
EvWriteOkDone(e, r) ==
  IF e.runs[r].pc # "writeOk" THEN {}
  ELSE LET run == e.runs[r]
           p == run.page[run.idx]
           toCatch == [run EXCEPT !.pc = "writeFail", !.result = EvNoResult]
       IN (IF e.posts[p].exists
           THEN {[e EXCEPT !.posts[p] = EvaluatedData(@, run.result),
                           !.runs[r] =
                             [run EXCEPT !.pc = "sleep",
                                         !.evaluated = @ + 1,
                                         !.opportunities =
                                           IF run.result.isOpportunity
                                           THEN @ + 1 ELSE @,
                                         !.result = EvNoResult],
                           !.response = EvNoResponse]}
           ELSE {})
          \cup
          (IF e.faultsLeft > 0
           THEN {[EvFault(e) EXCEPT !.runs[r] = toCatch,
                                    !.response = EvNoResponse]}
           ELSE {})
          \cup
          (IF run.result.score = NaN \/ ~e.posts[p].exists
           THEN {[e EXCEPT !.runs[r] = toCatch, !.response = EvNoResponse]}
           ELSE {})

\* evaluation filter, line 179 then 148
EvSleepDone(e, r) ==
  IF e.runs[r].pc # "sleep" THEN {}
  ELSE {EvSettle(e, r, EvNextIteration(e, e.runs[r]))}

\* evaluation filter, lines 183-194 then 148
EvWriteFailDone(e, r) ==
  IF e.runs[r].pc # "writeFail" THEN {}
  ELSE LET run == e.runs[r]
           p == run.page[run.idx]
       IN (IF e.faultsLeft > 0
           THEN {EvSettle(EvFault(e), r, EvThrow(run))} ELSE {})
          \cup
          (IF ~e.posts[p].exists THEN {EvSettle(e, r, EvThrow(run))}
           ELSE {EvSettle([e EXCEPT !.posts[p] = EvFailedData(@)], r,
                          EvNextIteration(e, [run EXCEPT
                                                !.evaluated = @ + 1]))})

\* evaluation routes, lines 136-149, and evaluation filter, lines 12-14
EvPostStop(e) ==
  IF ~e.isFiltering
  THEN {[e EXCEPT !.response = [EvNoResponse EXCEPT !.route = "stop",
                                                    !.status = 400]]}
  ELSE {[e EXCEPT !.stopRequested = TRUE,
                  !.response = [EvNoResponse EXCEPT !.route = "stop",
                                                    !.status = 200]]}

\* evaluation filter, line 265 with 83-99
EvBgCallEvaluatePost(loop, p) ==
  IF GEMINI_API_KEY THEN [loop EXCEPT !.pc = "classify", !.post = Some(p)]
  ELSE [loop EXCEPT !.pc = "writeFail", !.post = Some(p)]

\* evaluation filter, lines 234-251
EvStartBackgroundFilter(e, l) ==
  IF ~envKey \/ e.backgroundFilterRunning
  THEN {[e EXCEPT !.response = EvNoResponse]}
  ELSE IF e.loops[l].pc # "none" THEN {}
  ELSE {[e EXCEPT !.backgroundFilterRunning = TRUE,
                  !.loops[l] = [EvNoLoop EXCEPT !.pc = "fetch"],
                  !.response = EvNoResponse]}

\* evaluation filter, lines 308-310
EvStopBackgroundFilter(e) ==
  {[e EXCEPT !.backgroundFilterRunning = FALSE, !.response = EvNoResponse]}

\* evaluation filter, lines 251-265
EvBgFetchDone(e, l) ==
  IF e.loops[l].pc # "fetch" THEN {}
  ELSE (IF e.faultsLeft > 0
        THEN {[EvFault(e) EXCEPT !.loops[l].pc = "errSleep",
                                 !.response = EvNoResponse]}
        ELSE {})
       \cup
       {LET found == EvFindFirst(e.posts) IN
        [e EXCEPT !.loops[l] =
                    IF found = <<>> THEN [@ EXCEPT !.pc = "idleSleep"]
                    ELSE EvBgCallEvaluatePost(@, found[1]),
                  !.response = EvNoResponse]}

\* evaluation filter, lines 99-116 and 265
EvBgClassifyDone(e, l, resp) ==
  IF e.loops[l].pc # "classify" THEN {}
  ELSE {[e EXCEPT !.loops[l] =
                    IF resp.thrown THEN [@ EXCEPT !.pc = "writeFail"]
                    ELSE [@ EXCEPT !.pc = "writeOk",
                                   !.result = EvaluationResult(resp)],
                  !.response = EvNoResponse]}

\* evaluation filter, lines 267-297
EvBgWriteOkDone(e, l) ==
  IF e.loops[l].pc # "writeOk" THEN {}
  ELSE LET loop == e.loops[l]
           p == The(loop.post)
           toCatch == [loop EXCEPT !.pc = "writeFail", !.result = EvNoResult]
       IN (IF e.posts[p].exists
           THEN {[e EXCEPT !.posts[p] = EvaluatedData(@, loop.result),
                           !.loops[l] = [EvNoLoop EXCEPT !.pc = "postSleep"],
                           !.response = EvNoResponse]}
           ELSE {})
          \cup
          (IF e.faultsLeft > 0
           THEN {[EvFault(e) EXCEPT !.loops[l] = toCatch,
                                    !.response = EvNoResponse]}
           ELSE {})
          \cup
          (IF loop.result.score = NaN \/ ~e.posts[p].exists
           THEN {[e EXCEPT !.loops[l] = toCatch, !.response = EvNoResponse]}
           ELSE {})

\* evaluation filter, lines 284-302
EvBgWriteFailDone(e, l) ==
  IF e.loops[l].pc # "writeFail" THEN {}
  ELSE LET loop == e.loops[l]
           p == The(loop.post)
           toErr == [EvNoLoop EXCEPT !.pc = "errSleep"]
       IN (IF e.faultsLeft > 0
           THEN {[EvFault(e) EXCEPT !.loops[l] = toErr,
                                    !.response = EvNoResponse]}
           ELSE {})
          \cup
          (IF ~e.posts[p].exists
           THEN {[e EXCEPT !.loops[l] = toErr, !.response = EvNoResponse]}
           ELSE {[e EXCEPT !.posts[p] = EvFailedData(@),
                           !.loops[l] = [EvNoLoop EXCEPT !.pc = "postSleep"],
                           !.response = EvNoResponse]})

\* evaluation filter, lines 259, 297, 301 then 248
EvBgSleepDone(e, l) ==
  IF e.loops[l].pc \notin SleepPcs THEN {}
  ELSE {[e EXCEPT !.loops[l] =
                    IF e.backgroundFilterRunning
                    THEN [EvNoLoop EXCEPT !.pc = "fetch"] ELSE EvNoLoop,
                  !.response = EvNoResponse]}

\* ------------------------------------------------------------ niche rows
\* niches.rows: the niche columns of the posts table, by row id: isNiche and
\* parentPostId (Null where the column is NULL).
\* niches.calls: one record per POST /api/niches connection; pc is the await
\* the request is suspended at:
\*   "idle"    no request on this connection
\*   "find"    niches route, line 214  await prisma.post.findUnique
\*   "create"  niches route, line 225  await prisma.post.create
\* parentPostId is the member of the request body.
NicheIds == 1..MaxNicheRows

NicheCalls == 1..MaxNicheCalls

NoNicheRow == [exists |-> FALSE, isNiche |-> FALSE, parentPostId |-> Null]

\* collector.ts:86-98: a collected post takes the schema defaults
PlainPostRow == [NoNicheRow EXCEPT !.exists = TRUE]

NoNicheCall == [pc |-> "idle", parentPostId |-> Null]

NoNiches ==
  [rows |-> [i \in NicheIds |-> NoNicheRow],
   calls |-> [c \in NicheCalls |-> NoNicheCall]]

\* niches route, lines 159-214: the body is read; a request without
\* parentPostId or without a title and a description is answered 400; else
\* the findUnique call for the parent is issued
PostNiche(c, parentPostId, hasText) ==
  /\ niches.calls[c].pc = "idle"
  /\ IF parentPostId = Null \/ ~hasText
     THEN /\ response' = [NoResponse EXCEPT !.route = "niches", !.status = 400]
          /\ UNCHANGED niches
     ELSE /\ niches' = [niches EXCEPT
                          !.calls[c] = [pc |-> "find",
                                        parentPostId |-> parentPostId]]
          /\ response' = NoResponse
  /\ UNCHANGED <<posts, config, batchVars, backgroundVars, faultsLeft,
                 statusCall, collects, subreddits, ev>>

\* niches route, lines 214-225 and 278-281: findUnique rejects (500) or
\* resolves; a missing parent is answered 404, any parent found (its isNiche is selected but
\* never read) leads to the create call
NicheFindDone(c) ==
  /\ niches.calls[c].pc = "find"
  /\ \/ LET parentPost == niches.rows[The(niches.calls[c].parentPostId)] IN
        IF ~parentPost.exists
        THEN /\ niches' = [niches EXCEPT !.calls[c] = NoNicheCall]
             /\ response' = [NoResponse EXCEPT !.route = "niches",
                                                !.status = 404]
        ELSE /\ niches' = [niches EXCEPT !.calls[c].pc = "create"]
             /\ response' = NoResponse
     \/ /\ niches' = [niches EXCEPT !.calls[c] = NoNicheCall]
        /\ response' = [NoResponse EXCEPT !.route = "niches", !.status = 500]
  /\ UNCHANGED <<posts, config, batchVars, backgroundVars, faultsLeft,
                 statusCall, collects, subreddits, ev>>

\* niches route, lines 225-282: create resolves with a row under a fresh id
\* (one that no request in flight names), isNiche true and the parentPostId
\* of the body (201), or rejects (500)
NicheCreateDone(c) ==
  /\ niches.calls[c].pc = "create"
  /\ \/ /\ \E i \in NicheIds :
              /\ ~niches.rows[i].exists
              /\ \A d \in NicheCalls : niches.calls[d].parentPostId # Some(i)
              /\ niches' = [niches EXCEPT
                              !.rows[i] = [exists |-> TRUE, isNiche |-> TRUE,
                                           parentPostId |->
                                             niches.calls[c].parentPostId],
                              !.calls[c] = NoNicheCall]
        /\ response' = [NoResponse EXCEPT !.route = "niches", !.status = 201]
     \/ /\ niches' = [niches EXCEPT !.calls[c] = NoNicheCall]
        /\ response' = [NoResponse EXCEPT !.route = "niches", !.status = 500]
  /\ UNCHANGED <<posts, config, batchVars, backgroundVars, faultsLeft,
                 statusCall, collects, subreddits, ev>>

\* ----------------------------------------------------------- status route
\* filter.ts:204  where: { isTriaged: true, triageScore: { not: null } }
ScoredIds(ps) ==
  {p \in DOMAIN ps :
     ps[p].exists /\ ps[p].isTriaged /\ ps[p].triageScore # Null}

RECURSIVE SumScores(_, _)
SumScores(ps, S) ==
  IF S = {} THEN 0
  ELSE LET p == CHOOSE x \in S : TRUE
       IN The(ps[p].triageScore) + SumScores(ps, S \ {p})

\* mutant: the mean taken over all triaged rows, those without a score too
avgScore_CountsFailed(ps) ==
  IF ScoredIds(ps) = {} THEN Null
  ELSE Some([sum |-> SumScores(ps, ScoredIds(ps)),
             count |-> Cardinality(TriagedIds(ps))])

\* filter.ts:203-206  _avg: the mean as the pair (sum, count), null when no
\* row has a score
avgScore(ps) ==
  IF ScoredIds(ps) = {} THEN Null
  ELSE Some([sum |-> SumScores(ps, ScoredIds(ps)),
             count |-> Cardinality(ScoredIds(ps))])

\* filter.ts:192-216
getTriageStatus(ps) ==
  LET total == Cardinality({p \in DOMAIN ps : ps[p].exists})
      pending == Cardinality(PendingIds(ps))
  IN [total |-> total, pending |-> pending, triaged |-> total - pending,
      passed |-> Cardinality({p \in DOMAIN ps :
                                ps[p].exists /\ ps[p].passedTriage = Some(TRUE)}),
      avgScore |-> avgScore(ps)]

\* routes/filter.ts:45-58  GET /api/filter/status when no other handler
\* runs between the four queries (StatusStart and StatusQueryDone are the
\* same request query by query): the four queries resolve and the report is
\* sent, or one of them rejects and the answer is 500
GetStatus ==
  /\ \/ /\ faultsLeft > 0
        /\ faultsLeft' = faultsLeft - 1
        /\ response' = [NoResponse EXCEPT !.route = "status", !.status = 500]
     \/ /\ UNCHANGED faultsLeft
        /\ LET status == getTriageStatus(posts) IN
           response' = [route |-> "status", req |-> 0, status |-> 200,
                        stopped |-> FALSE, total |-> status.total,
                        pending |-> status.pending,
                        triaged |-> status.triaged, passed |-> status.passed,
                        avgScore |-> status.avgScore,
                        isRunning |-> isTriaging,
                        isBackgroundRunning |-> backgroundTriageRunning,
                        isConfigured |-> envKey]
  /\ UNCHANGED <<posts, config, sideVars, batchVars, backgroundVars>>

\* filter.ts:199-207: the four queries of getTriageStatus, issued together
\* by Promise.all; each is answered by the datastore on its own
StatusQueries == {"total", "pending", "passed", "avg"}

NoStatusCall == [active |-> FALSE, got |-> [q \in StatusQueries |-> Null]]

\* --------------------------------------------------------------- collector
\* Subreddit s is the subreddit of post s, and its feed carries that post:
\* the id of a post stands for its redditId.
Subs == PostIds

Collections == 1..MaxCollections

\* collector.ts:66  the items of the feed of subreddit s: none, the post, or
\* an item whose link holds no reddit id (written 0) before the post
FeedItems(s) == {<<>>, <<s>>, <<0, s>>}

\* pc of one call of collectAll:
\*   "idle"      not called
\*   "list"      collector.ts:123  await prisma.subreddit.findMany
\*   "findSub"   collector.ts:55   await prisma.subreddit.findUnique
\*   "feed"      collector.ts:64   await parser.parseURL
\*   "findPost"  collector.ts:79   await prisma.post.findUnique
\*   "create"    collector.ts:86   await prisma.post.create
\*   "touch"     collector.ts:105  await prisma.subreddit.update
\*   "delay"     collector.ts:145  await setTimeout 1000
\*   "done"      collectAll has returned its result
\*   "failed"    collectAll has thrown
\* created is the list of the posts the call has created, kept for the
\* properties; touched of a result tells that the call updated lastFetchedAt.
IdleCollect ==
  [pc |-> "idle", list |-> <<>>, k |-> 0, items |-> <<>>, i |-> 0,
   fetched |-> 0, newPosts |-> 0, errors |-> <<>>, touched |-> FALSE,
   totalFetched |-> 0, totalNew |-> 0,
   subredditResults |-> [s \in Subs |-> Null], created |-> <<>>]

NoSubreddit == [enabled |-> TRUE, lastFetchedAt |-> Null]

InitSide ==
  /\ statusCall = NoStatusCall
  /\ collects = [c \in Collections |-> IdleCollect]
  /\ subreddits = [s \in Subs |-> NoSubreddit]
  /\ ev = EvInit
  /\ niches = NoNiches

RECURSIVE Ascending(_)
\* the rows of a findMany without orderBy, in the order of their ids
Ascending(S) ==
  IF S = {} THEN <<>>
  ELSE LET m == CHOOSE x \in S : \A y \in S : x <= y
       IN <<m>> \o Ascending(S \ {m})

\* collector.ts:123-125  findMany({ where: { enabled: true } })
EnabledSubreddits ==
  Ascending({s \in Subs : posts[s].subreddit /\ subreddits[s].enabled})

CurrentSub(col) == col.list[col.k]

\* collector.ts:113 then 133-145: collectFromSubreddit returns, collectAll
\* records the result and adds to its totals, and the delay is issued
ReturnSub(col) ==
  [col EXCEPT !.subredditResults[CurrentSub(col)] =
                 Some([fetched |-> col.fetched, newPosts |-> col.newPosts,
                       errors |-> col.errors, touched |-> col.touched]),
              !.totalFetched = @ + col.fetched,
              !.totalNew = @ + col.newPosts,
              !.pc = "delay"]

\* mutant: collectFromSubreddit without its try/catch, so the error leaves
\* collectAll
CatchSub_Rethrows(col) ==
  [col EXCEPT !.pc = "failed"]

\* collector.ts:110-113: the catch of collectFromSubreddit
CatchSub(col) ==
  ReturnSub([col EXCEPT !.errors = Append(@, "Failed to fetch feed")])

RECURSIVE NextItem(_)
\* collector.ts:68-79: the for loop goes to the next item, skipping an item
\* without a reddit id with an error; after the last item the update of
\* lastFetchedAt is issued (105)
NextItem(col) ==
  IF col.i = Len(col.items) THEN [col EXCEPT !.pc = "touch"]
  ELSE IF col.items[col.i + 1] = 0
  THEN NextItem([col EXCEPT !.i = @ + 1,
                            !.errors = Append(@, "Could not extract Reddit ID")])
  ELSE [col EXCEPT !.i = @ + 1, !.pc = "findPost"]

\* collector.ts:132-133 and 50-55: the for loop of collectAll calls
\* collectFromSubreddit for the next subreddit of its list, or collectAll
\* returns (150)
NextSub(col) ==
  IF col.k = Len(col.list) THEN [col EXCEPT !.pc = "done"]
  ELSE [col EXCEPT !.k = @ + 1, !.pc = "findSub", !.items = <<>>, !.i = 0,
                   !.fetched = 0, !.newPosts = 0, !.errors = <<>>,
                   !.touched = FALSE]

\* collector.ts:116-123, called by the timer (153-166) or by POST
\* /api/collect (routes/system.ts:37-39)
collectAll(c) ==
  /\ collects[c].pc = "idle"
  /\ collects' = [collects EXCEPT ![c] = [@ EXCEPT !.pc = "list"]]
  /\ response' = NoResponse
  /\ UNCHANGED <<posts, config, stageVars, batchVars, backgroundVars, faultsLeft,
                 statusCall, subreddits>>

\* collector.ts:123-133: the list of enabled subreddits resolves, or
\* rejects and collectAll throws
CollectListDone(c) ==
  /\ collects[c].pc = "list"
  /\ \/ /\ faultsLeft > 0
        /\ faultsLeft' = faultsLeft - 1
        /\ collects' = [collects EXCEPT ![c] = [@ EXCEPT !.pc = "failed"]]
     \/ /\ UNCHANGED faultsLeft
        /\ collects' = [collects EXCEPT ![c] =
                          NextSub([@ EXCEPT !.list = EnabledSubreddits,
                                            !.k = 0])]
  /\ response' = NoResponse
  /\ UNCHANGED <<posts, config, stageVars, batchVars, backgroundVars, statusCall,
                 subreddits>>

\* collector.ts:55-64
CollectFindSubDone(c) ==
  /\ collects[c].pc = "findSub"
  /\ LET col == collects[c] IN
     \/ /\ faultsLeft > 0
        /\ faultsLeft' = faultsLeft - 1
        /\ collects' = [collects EXCEPT ![c] = CatchSub(col)]
     \/ /\ UNCHANGED faultsLeft
        /\ collects' = [collects EXCEPT ![c] =
                          IF posts[CurrentSub(col)].subreddit
                          THEN [col EXCEPT !.pc = "feed"]
                          ELSE ReturnSub([col EXCEPT !.errors =
                                            <<"not found in database">>])]
  /\ response' = NoResponse
  /\ UNCHANGED <<posts, config, stageVars, batchVars, backgroundVars, statusCall,
                 subreddits>>

\* collector.ts:64-79: the feed is fetched and parsed, or parseURL rejects
CollectFeedDone(c) ==
  /\ collects[c].pc = "feed"
  /\ LET col == collects[c] IN
     \/ collects' = [collects EXCEPT ![c] = CatchSub(col)]
     \/ \E items \in FeedItems(CurrentSub(col)) :
          collects' = [collects EXCEPT ![c] =
                         NextItem([col EXCEPT !.items = items, !.i = 0,
                                              !.fetched = Len(items)])]
  /\ response' = NoResponse
  /\ UNCHANGED <<posts, config, stageVars, batchVars, backgroundVars, faultsLeft,
                 statusCall, subreddits>>

\* collector.ts:79-86: findUnique by redditId
CollectFindPostDone(c) ==
  /\ collects[c].pc = "findPost"
  /\ LET col == collects[c]
         p == col.items[col.i]
     IN \/ /\ faultsLeft > 0
           /\ faultsLeft' = faultsLeft - 1
           /\ collects' = [collects EXCEPT ![c] = CatchSub(col)]
        \/ /\ UNCHANGED faultsLeft
           /\ collects' = [collects EXCEPT ![c] =
                             IF posts[p].exists THEN NextItem(col)
                             ELSE [col EXCEPT !.pc = "create"]]
  /\ response' = NoResponse
  /\ UNCHANGED <<posts, config, stageVars, batchVars, backgroundVars, statusCall,
                 subreddits>>

\* mutant: no unique index on reddit_id, so the create also resolves when a
\* row with this redditId was stored after the findUnique
CollectCreateDone_NoUniqueIndex(c) ==
  /\ collects[c].pc = "create"
  /\ LET col == collects[c]
         p == col.items[col.i]
     IN \/ /\ \/ faultsLeft > 0 /\ faultsLeft' = faultsLeft - 1
              \/ ~posts[p].subreddit /\ UNCHANGED faultsLeft
           /\ UNCHANGED posts
           /\ collects' = [collects EXCEPT ![c] =
                             NextItem([col EXCEPT !.errors =
                                         Append(@, "Failed to save post")])]
        \/ /\ posts[p].subreddit
           /\ UNCHANGED faultsLeft
           /\ posts' = [posts EXCEPT ![p] = NewRow]
           /\ collects' = [collects EXCEPT ![c] =
                             NextItem([col EXCEPT !.newPosts = @ + 1,
                                                  !.created = Append(@, p)])]
  /\ response' = NoResponse
  /\ UNCHANGED <<config, stageVars, batchVars, backgroundVars, statusCall, subreddits>>

\* collector.ts:85-102: the create resolves, or it rejects (a datastore
\* fault, a row with this redditId stored meanwhile: reddit_id is unique,
\* add-subreddits.js:305, or the subreddit deleted meanwhile: subreddit_id
\* is a foreign key, 306) and the error is pushed
CollectCreateDone(c) ==
  /\ collects[c].pc = "create"
  /\ LET col == collects[c]
         p == col.items[col.i]
     IN \/ /\ \/ faultsLeft > 0 /\ faultsLeft' = faultsLeft - 1
              \/ posts[p].exists /\ UNCHANGED faultsLeft
              \/ ~posts[p].subreddit /\ UNCHANGED faultsLeft
           /\ UNCHANGED posts
           /\ collects' = [collects EXCEPT ![c] =
                             NextItem([col EXCEPT !.errors =
                                         Append(@, "Failed to save post")])]
        \/ /\ ~posts[p].exists
           /\ posts[p].subreddit
           /\ UNCHANGED faultsLeft
           /\ posts' = [posts EXCEPT ![p] = NewRow]
           /\ collects' = [collects EXCEPT ![c] =
                             NextItem([col EXCEPT !.newPosts = @ + 1,
                                                  !.created = Append(@, p)])]
  /\ response' = NoResponse
  /\ UNCHANGED <<config, stageVars, batchVars, backgroundVars, statusCall, subreddits>>

\* collector.ts:105-113: the update of lastFetchedAt resolves, or rejects
\* (a datastore fault, or the subreddit deleted meanwhile) into the catch
CollectTouchDone(c) ==
  /\ collects[c].pc = "touch"
  /\ LET col == collects[c]
         s == CurrentSub(col)
     IN \/ /\ \/ faultsLeft > 0 /\ faultsLeft' = faultsLeft - 1
              \/ ~posts[s].subreddit /\ UNCHANGED faultsLeft
           /\ UNCHANGED subreddits
           /\ collects' = [collects EXCEPT ![c] = CatchSub(col)]
        \/ /\ posts[s].subreddit
           /\ UNCHANGED faultsLeft
           /\ subreddits' = [subreddits EXCEPT ![s].lastFetchedAt = Some(c)]
           /\ collects' = [collects EXCEPT ![c] =
                             ReturnSub([col EXCEPT !.touched = TRUE])]
  /\ response' = NoResponse
  /\ UNCHANGED <<posts, config, stageVars, batchVars, backgroundVars, statusCall>>

\* collector.ts:145 then 132: the delay between subreddits elapses
CollectDelayDone(c) ==
  /\ collects[c].pc = "delay"
  /\ collects' = [collects EXCEPT ![c] = NextSub(@)]
  /\ response' = NoResponse
  /\ UNCHANGED <<posts, config, stageVars, batchVars, backgroundVars, faultsLeft,
                 statusCall, subreddits>>


\* the answer of one query over the table as it is when the query runs
StatusQuery(q, ps) ==
  CASE q = "total" -> getTriageStatus(ps).total
    [] q = "pending" -> getTriageStatus(ps).pending
    [] q = "passed" -> getTriageStatus(ps).passed
    [] q = "avg" -> getTriageStatus(ps).avgScore

\* routes/filter.ts:45-47 and filter.ts:199: a status request arrives and
\* the four queries are issued
StatusStart ==
  /\ ~statusCall.active
  /\ statusCall' = [NoStatusCall EXCEPT !.active = TRUE]
  /\ response' = NoResponse
  /\ UNCHANGED <<posts, config, stageVars, batchVars, backgroundVars, faultsLeft,
                 collects, subreddits>>

\* filter.ts:199-215 and routes/filter.ts:47-57: one of the queries is
\* answered; the last answer resolves Promise.all and the report is sent; a
\* rejected query rejects Promise.all and the answer is 500
StatusQueryDone(q) ==
  /\ statusCall.active
  /\ statusCall.got[q] = Null
  /\ \/ /\ faultsLeft > 0
        /\ faultsLeft' = faultsLeft - 1
        /\ statusCall' = NoStatusCall
        /\ response' = [NoResponse EXCEPT !.route = "status", !.status = 500]
     \/ /\ UNCHANGED faultsLeft
        /\ LET got == [statusCall.got EXCEPT ![q] = Some(StatusQuery(q, posts))]
               total == The(got["total"])
               pending == The(got["pending"])
           IN IF \A k \in StatusQueries : got[k] # Null
              THEN /\ statusCall' = NoStatusCall
                   /\ response' =
                        [route |-> "status", req |-> 0, status |-> 200,
                         stopped |-> FALSE, total |-> total,
                         pending |-> pending,
                         triaged |-> total - pending,
                         passed |-> The(got["passed"]),
                         avgScore |-> The(got["avg"]),
                         isRunning |-> isTriaging,
                         isBackgroundRunning |-> backgroundTriageRunning,
                         isConfigured |-> envKey]
              ELSE /\ statusCall' = [statusCall EXCEPT !.got = got]
                   /\ response' = NoResponse
  /\ UNCHANGED <<posts, config, stageVars, batchVars, backgroundVars, collects,
                 subreddits>>

\* ------------------------------------------ other writers of the posts table
\* collector.ts:79-99: a feed item whose redditId is not stored is created;
\* collector.ts:116-151: feeds are read for the stored subreddits only
CollectorCreate(p) ==
  /\ ~posts[p].exists
  /\ posts[p].subreddit
  /\ posts' = [posts EXCEPT ![p] = NewRow]
  /\ response' = NoResponse
  /\ UNCHANGED <<config, sideVars, batchVars, backgroundVars, faultsLeft>>

\* collector.ts:79-99 over feeds that never run dry.  The background loop
\* reads untriaged rows only (filter.ts:242), so a triaged row that no
\* activation holds has no further effect on it: the place of such a row
\* stands for the next item of the feed, created with a createdUtc above
\* that of every pending post.
CollectorCreateNewer(p) ==
  /\ posts[p].exists
  /\ posts[p].isTriaged
  /\ \A l \in DOMAIN loops : loops[l].post # Some(p)
  /\ \A q \in PendingIds(posts) : q < p
  /\ posts' = [posts EXCEPT ![p] = NewRow]
  /\ response' = NoResponse
  /\ UNCHANGED <<config, sideVars, batchVars, backgroundVars, faultsLeft>>

\* routes/subreddits.ts:92-105  DELETE /api/subreddits/:id.  Post p stands
\* for the posts of one subreddit.  The schema of the relation is not part of
\* the sources: the delete either cascades to the posts of the subreddit
\* (204) or is refused while it has posts (500).
DeleteSubreddit(p) ==
  /\ posts[p].subreddit
  /\ \/ /\ posts' = [posts EXCEPT ![p] = [AbsentRow EXCEPT !.subreddit = FALSE]]
        /\ response' = [NoResponse EXCEPT !.route = "subreddits",
                                           !.status = 204]
     \/ /\ posts[p].exists
        /\ UNCHANGED posts
        /\ response' = [NoResponse EXCEPT !.route = "subreddits",
                                           !.status = 500]
  /\ UNCHANGED <<config, sideVars, batchVars, backgroundVars, faultsLeft>>

\* mutant: the PATCH route also puts the post back in the triage queue
PatchPost_ResetsTriage(p, flag) ==
  /\ posts[p].exists
  /\ posts' = [posts EXCEPT ![p] = [@ EXCEPT !.isFlagged = flag,
                                             !.isTriaged = FALSE]]
  /\ response' = NoResponse
  /\ UNCHANGED <<config, sideVars, batchVars, backgroundVars, faultsLeft>>

\* routes/posts.ts:289-381  PATCH /api/posts/:id with a boolean isFlagged
PatchPost(p, flag) ==
  /\ posts[p].exists
  /\ posts' = [posts EXCEPT ![p] = [@ EXCEPT !.isFlagged = flag]]
  /\ response' = NoResponse
  /\ UNCHANGED <<config, sideVars, batchVars, backgroundVars, faultsLeft>>

\* ---------------------------------------------------------- specifications
\* Classifier responses of the full system: a thrown call and one
\* conforming answer (13.7, passing).
CoreResponses ==
  {ThrownResponse,
   [thrown |-> FALSE, passedTriage |-> Some(TRUE), score |-> Some(137),
    reason |-> Some("ok")]}

\* mutant: filter.ts is loaded before the credential is put into the
\* environment, so the value captured at line 5 is undefined
Init_CapturedBeforeEnv ==
  /\ posts = [p \in PostIds |-> AbsentRow]
  /\ envKey \in BOOLEAN
  /\ GEMINI_API_KEY = FALSE
  /\ TRIAGE_BATCH_SIZE = MaxBatchSize
  /\ isTriaging = FALSE
  /\ stopRequested = FALSE
  /\ backgroundTriageRunning = FALSE
  /\ runs = [r \in Requests |-> IdleRun]
  /\ loops = [l \in Loops |-> NoLoop]
  /\ response = NoResponse
  /\ faultsLeft = MaxFaults
  /\ InitSide

Init ==
  /\ posts = [p \in PostIds |-> AbsentRow]
  /\ envKey \in BOOLEAN
  /\ GEMINI_API_KEY = envKey
  /\ TRIAGE_BATCH_SIZE = MaxBatchSize
  /\ isTriaging = FALSE
  /\ stopRequested = FALSE
  /\ backgroundTriageRunning = FALSE
  /\ runs = [r \in Requests |-> IdleRun]
  /\ loops = [l \in Loops |-> NoLoop]
  /\ response = NoResponse
  /\ faultsLeft = MaxFaults
  /\ InitSide

Next ==
  \/ \E r \in Requests : PostFilter(r)
  \/ \E r \in Requests : FetchDone(r)
  \/ \E r \in Requests : \E resp \in CoreResponses : ClassifyDone(r, resp)
  \/ \E r \in Requests : WriteOkDone(r)
  \/ \E r \in Requests : SleepDone(r)
  \/ \E r \in Requests : WriteFailDone(r)
  \/ PostStop
  \/ \E l \in Loops : startBackgroundTriage(l)
  \/ stopBackgroundTriage
  \/ \E l \in Loops : BgFetchDone(l)
  \/ \E l \in Loops : \E resp \in CoreResponses : BgClassifyDone(l, resp)
  \/ \E l \in Loops : BgWriteOkDone(l)
  \/ \E l \in Loops : BgWriteFailDone(l)
  \/ \E l \in Loops : BgSleepDone(l)
  \/ \E p \in PostIds : CollectorCreate(p)
  \/ \E p \in PostIds : \E flag \in BOOLEAN : PatchPost(p, flag)
  \/ GetStatus

Spec == Init /\ [][Next]_vars

\* The batch route alone: start and stop requests, the run, ingestion of
\* new posts and datastore faults, with the background runner never started,
\* for every page size of the deployment.
InitBatch ==
  /\ posts = [p \in PostIds |-> AbsentRow]
  /\ envKey \in BOOLEAN
  /\ GEMINI_API_KEY = envKey
  /\ TRIAGE_BATCH_SIZE \in 1..MaxBatchSize
  /\ isTriaging = FALSE
  /\ stopRequested = FALSE
  /\ backgroundTriageRunning = FALSE
  /\ runs = [r \in Requests |-> IdleRun]
  /\ loops = [l \in Loops |-> NoLoop]
  /\ response = NoResponse
  /\ faultsLeft = MaxFaults
  /\ InitSide

NextBatch ==
  \/ \E r \in Requests : PostFilter(r)
  \/ \E r \in Requests : FetchDone(r)
  \/ \E r \in Requests : \E resp \in CoreResponses : ClassifyDone(r, resp)
  \/ \E r \in Requests : WriteOkDone(r)
  \/ \E r \in Requests : SleepDone(r)
  \/ \E r \in Requests : WriteFailDone(r)
  \/ PostStop
  \/ \E p \in PostIds : CollectorCreate(p)

SpecBatch == InitBatch /\ [][NextBatch]_vars

\* The batch route with posts that can vanish under a run: the actions of
\* SpecBatch and the deletion of subreddits.
NextVanish ==
  \/ \E r \in Requests : PostFilter(r)
  \/ \E r \in Requests : FetchDone(r)
  \/ \E r \in Requests : \E resp \in CoreResponses : ClassifyDone(r, resp)
  \/ \E r \in Requests : WriteOkDone(r)
  \/ \E r \in Requests : SleepDone(r)
  \/ \E r \in Requests : WriteFailDone(r)
  \/ PostStop
  \/ \E p \in PostIds : CollectorCreate(p)
  \/ \E p \in PostIds : DeleteSubreddit(p)

SpecVanish == InitBatch /\ [][NextVanish]_vars

\* The background runner alone, as the exported functions of filter.ts allow
\* it to be driven: start and stop called at any time, up to MaxActivations
\* activations of the loop in flight, ingestion of new posts, datastore
\* faults and the status route.
InitBackground ==
  /\ posts = [p \in PostIds |-> AbsentRow]
  /\ envKey \in BOOLEAN
  /\ GEMINI_API_KEY = envKey
  /\ TRIAGE_BATCH_SIZE = MaxBatchSize
  /\ isTriaging = FALSE
  /\ stopRequested = FALSE
  /\ backgroundTriageRunning = FALSE
  /\ runs = [r \in Requests |-> IdleRun]
  /\ loops = [l \in Activations |-> NoLoop]
  /\ response = NoResponse
  /\ faultsLeft = MaxFaults
  /\ InitSide

NextBackground ==
  \/ \E l \in Activations : startBackgroundTriage(l)
  \/ stopBackgroundTriage
  \/ \E l \in Activations : BgFetchDone(l)
  \/ \E l \in Activations : \E resp \in CoreResponses : BgClassifyDone(l, resp)
  \/ \E l \in Activations : BgWriteOkDone(l)
  \/ \E l \in Activations : BgWriteFailDone(l)
  \/ \E l \in Activations : BgSleepDone(l)
  \/ \E p \in PostIds : CollectorCreate(p)
  \/ GetStatus

SpecBackground == InitBackground /\ [][NextBackground]_vars

\* The background runner beside a collector whose feeds keep delivering
\* posts.  Every pending datastore call, classifier call and delay of an
\* activation eventually completes; nothing is assumed of the collector or
\* of the calls that start and stop the runner.
NextStream ==
  \/ \E l \in Activations : startBackgroundTriage(l)
  \/ stopBackgroundTriage
  \/ \E l \in Activations : BgFetchDone(l)
  \/ \E l \in Activations : \E resp \in CoreResponses : BgClassifyDone(l, resp)
  \/ \E l \in Activations : BgWriteOkDone(l)
  \/ \E l \in Activations : BgWriteFailDone(l)
  \/ \E l \in Activations : BgSleepDone(l)
  \/ \E p \in PostIds : CollectorCreate(p)
  \/ \E p \in PostIds : CollectorCreateNewer(p)

BackgroundFairness ==
  \A l \in Activations :
    /\ WF_vars(BgFetchDone(l))
    /\ WF_vars(\E resp \in CoreResponses : BgClassifyDone(l, resp))
    /\ WF_vars(BgWriteOkDone(l))
    /\ WF_vars(BgWriteFailDone(l))
    /\ WF_vars(BgSleepDone(l))

SpecStream == InitBackground /\ [][NextStream]_vars /\ BackgroundFairness

\* the same runner when the feeds deliver MaxPosts posts and no more
NextFiniteFeed ==
  \/ \E l \in Activations : startBackgroundTriage(l)
  \/ stopBackgroundTriage
  \/ \E l \in Activations : BgFetchDone(l)
  \/ \E l \in Activations : \E resp \in CoreResponses : BgClassifyDone(l, resp)
  \/ \E l \in Activations : BgWriteOkDone(l)
  \/ \E l \in Activations : BgWriteFailDone(l)
  \/ \E l \in Activations : BgSleepDone(l)
  \/ \E p \in PostIds : CollectorCreate(p)

SpecFiniteFeed ==
  InitBackground /\ [][NextFiniteFeed]_vars /\ BackgroundFairness

\* The status route query by query, beside the collector and the
\* background runner, which write the table between the queries.
InitStatusRace ==
  /\ posts \in [PostIds -> {AbsentRow, NewRow}]
  /\ envKey = TRUE
  /\ GEMINI_API_KEY = TRUE
  /\ TRIAGE_BATCH_SIZE = MaxBatchSize
  /\ isTriaging = FALSE
  /\ stopRequested = FALSE
  /\ backgroundTriageRunning = FALSE
  /\ runs = [r \in Requests |-> IdleRun]
  /\ loops = [l \in Loops |-> NoLoop]
  /\ response = NoResponse
  /\ faultsLeft = MaxFaults
  /\ InitSide

NextStatusRace ==
  \/ StatusStart
  \/ \E q \in StatusQueries : StatusQueryDone(q)
  \/ \E p \in PostIds : CollectorCreate(p)
  \/ \E l \in Loops : startBackgroundTriage(l)
  \/ \E l \in Loops : BgFetchDone(l)
  \/ \E l \in Loops : \E resp \in CoreResponses : BgClassifyDone(l, resp)
  \/ \E l \in Loops : BgWriteOkDone(l)
  \/ \E l \in Loops : BgWriteFailDone(l)
  \/ \E l \in Loops : BgSleepDone(l)

SpecStatusRace == InitStatusRace /\ [][NextStatusRace]_vars

\* The collector: calls of collectAll that overlap (the timer does not wait
\* for the previous run, and POST /api/collect may come at any time) over
\* tables that hold any of the posts, pending or failed, with every
\* subreddit enabled or not; the first subreddit may be deleted meanwhile.
InitCollect ==
  /\ posts \in [PostIds -> {AbsentRow, NewRow, FailedData(NewRow)}]
  /\ envKey = TRUE
  /\ GEMINI_API_KEY = TRUE
  /\ TRIAGE_BATCH_SIZE = MaxBatchSize
  /\ isTriaging = FALSE
  /\ stopRequested = FALSE
  /\ backgroundTriageRunning = FALSE
  /\ runs = [r \in Requests |-> IdleRun]
  /\ loops = [l \in Loops |-> NoLoop]
  /\ response = NoResponse
  /\ faultsLeft = MaxFaults
  /\ statusCall = NoStatusCall
  /\ collects = [c \in Collections |-> IdleCollect]
  /\ subreddits \in [Subs -> {NoSubreddit,
                              [NoSubreddit EXCEPT !.enabled = FALSE]}]
  /\ ev = EvInit
  /\ niches = NoNiches

NextCollect ==
  \/ \E c \in Collections : collectAll(c)
  \/ \E c \in Collections : CollectListDone(c)
  \/ \E c \in Collections : CollectFindSubDone(c)
  \/ \E c \in Collections : CollectFeedDone(c)
  \/ \E c \in Collections : CollectFindPostDone(c)
  \/ \E c \in Collections : CollectCreateDone(c)
  \/ \E c \in Collections : CollectTouchDone(c)
  \/ \E c \in Collections : CollectDelayDone(c)
  \/ DeleteSubreddit(1)

SpecCollect == InitCollect /\ [][NextCollect]_vars

\* The status report over stored tables of up to MaxStatusPosts rows.  A
\* row is pending, failed, classified with score 4 (not passed), 7 or 9
\* (passed), or classified without a score; the report does not depend on
\* the order of the rows, so the tables list their rows by kind.
StatusRows ==
  <<NewRow,
    FailedData(NewRow),
    ClassifiedData(NewRow, [passedTriage |-> TRUE, score |-> NaN,
                            reason |-> "ok"]),
    ClassifiedData(NewRow, [passedTriage |-> FALSE, score |-> Some(4),
                            reason |-> "ok"]),
    ClassifiedData(NewRow, [passedTriage |-> TRUE, score |-> Some(7),
                            reason |-> "ok"]),
    ClassifiedData(NewRow, [passedTriage |-> TRUE, score |-> Some(9),
                            reason |-> "ok"])>>

RECURSIVE SortedKinds(_, _)
\* the nondecreasing sequences of at most n kinds, none below kind k
SortedKinds(n, k) ==
  IF n = 0 THEN {<<>>}
  ELSE {<<>>} \cup
       UNION {{<<j>> \o s : s \in SortedKinds(n - 1, j)} :
                j \in k..Len(StatusRows)}

StatusTables ==
  {[p \in 1..MaxStatusPosts |->
      IF p <= Len(s) THEN StatusRows[s[p]] ELSE AbsentRow] :
     s \in SortedKinds(MaxStatusPosts, 1)}

InitStatus ==
  /\ posts \in StatusTables
  /\ envKey = TRUE
  /\ GEMINI_API_KEY = TRUE
  /\ TRIAGE_BATCH_SIZE = MaxBatchSize
  /\ isTriaging = FALSE
  /\ stopRequested = FALSE
  /\ backgroundTriageRunning = FALSE
  /\ runs = [r \in Requests |-> IdleRun]
  /\ loops = [l \in Loops |-> NoLoop]
  /\ response = NoResponse
  /\ faultsLeft = MaxFaults
  /\ InitSide

NextStatus == GetStatus

SpecStatus == InitStatus /\ [][NextStatus]_vars

\* A batch run over a table that does not grow: any set of pending posts
\* at the start, no ingestion, no background runner; the datastore may fail
\* MaxFaults times.  Every pending datastore call, classifier call and delay
\* of a run eventually completes.
InitDrain ==
  /\ posts \in [PostIds -> {AbsentRow, NewRow}]
  /\ envKey = TRUE
  /\ GEMINI_API_KEY = TRUE
  /\ TRIAGE_BATCH_SIZE \in 1..MaxBatchSize
  /\ isTriaging = FALSE
  /\ stopRequested = FALSE
  /\ backgroundTriageRunning = FALSE
  /\ runs = [r \in Requests |-> IdleRun]
  /\ loops = [l \in Loops |-> NoLoop]
  /\ response = NoResponse
  /\ faultsLeft = MaxFaults
  /\ InitSide

NextDrain ==
  \/ \E r \in Requests : PostFilter(r)
  \/ \E r \in Requests : FetchDone(r)
  \/ \E r \in Requests : \E resp \in CoreResponses : ClassifyDone(r, resp)
  \/ \E r \in Requests : WriteOkDone(r)
  \/ \E r \in Requests : SleepDone(r)
  \/ \E r \in Requests : WriteFailDone(r)
  \/ PostStop

SpecDrain ==
  /\ InitDrain
  /\ [][NextDrain]_vars
  /\ \A r \in Requests :
       /\ WF_vars(FetchDone(r))
       /\ WF_vars(\E resp \in CoreResponses : ClassifyDone(r, resp))
       /\ WF_vars(WriteOkDone(r))
       /\ WF_vars(SleepDone(r))
       /\ WF_vars(WriteFailDone(r))

\* The counters of a batch run: the classifier throws, or answers with a
\* passing or with a non-passing verdict.
CountResponses ==
  CoreResponses \cup
    {[thrown |-> FALSE, passedTriage |-> Some(FALSE), score |-> Some(20),
      reason |-> Some("ok")]}

NextCount ==
  \/ \E r \in Requests : PostFilter(r)
  \/ \E r \in Requests : FetchDone(r)
  \/ \E r \in Requests : \E resp \in CountResponses : ClassifyDone(r, resp)
  \/ \E r \in Requests : WriteOkDone(r)
  \/ \E r \in Requests : SleepDone(r)
  \/ \E r \in Requests : WriteFailDone(r)
  \/ PostStop

SpecCount == InitDrain /\ [][NextCount]_vars

\* The evaluation of single posts over a range of classifier responses:
\* scores below, inside and above [0,10], integral and fractional (-2, -0.4,
\* 0, 0.4, 0.5, 6.4, 6.5, 10, 10.4, 10.5, 13.7), each member of the answer
\* present or missing, the reason empty or not.  The newest post is pending,
\* both runners and the stop route are available, and the datastore does
\* not fail.
RawScores == {0 - 20, 0 - 4, 0, 4, 5, 64, 65, 100, 104, 105, 137}

AllResponses == {ThrownResponse} \cup ParsedResponses(RawScores, {"", "ok"})

InitEval ==
  /\ posts = [p \in PostIds |-> IF p = MaxPosts THEN NewRow ELSE AbsentRow]
  /\ envKey = TRUE
  /\ GEMINI_API_KEY = TRUE
  /\ TRIAGE_BATCH_SIZE = MaxBatchSize
  /\ isTriaging = FALSE
  /\ stopRequested = FALSE
  /\ backgroundTriageRunning = FALSE
  /\ runs = [r \in Requests |-> IdleRun]
  /\ loops = [l \in Loops |-> NoLoop]
  /\ response = NoResponse
  /\ faultsLeft = 0
  /\ InitSide

NextEval ==
  \/ \E r \in Requests : PostFilter(r)
  \/ \E r \in Requests : FetchDone(r)
  \/ \E r \in Requests : \E resp \in AllResponses : ClassifyDone(r, resp)
  \/ \E r \in Requests : WriteOkDone(r)
  \/ \E r \in Requests : SleepDone(r)
  \/ \E r \in Requests : WriteFailDone(r)
  \/ PostStop
  \/ \E l \in Loops : startBackgroundTriage(l)
  \/ stopBackgroundTriage
  \/ \E l \in Loops : BgFetchDone(l)
  \/ \E l \in Loops : \E resp \in AllResponses : BgClassifyDone(l, resp)
  \/ \E l \in Loops : BgWriteOkDone(l)
  \/ \E l \in Loops : BgWriteFailDone(l)
  \/ \E l \in Loops : BgSleepDone(l)

SpecEval == InitEval /\ [][NextEval]_vars

\* the classifier answers of the evaluation stage: those of CountResponses
\* with the verdict in the member isOpportunity
EvalResponses ==
  {[thrown |-> x.thrown, isOpportunity |-> x.passedTriage,
    score |-> x.score, reason |-> x.reason] : x \in CountResponses}

\* every step the evaluation stage can take from e
EvSteps(e) ==
  UNION ({EvPostFilter(e, r) : r \in Requests}
    \cup {EvFetchDone(e, r) : r \in Requests}
    \cup {EvClassifyDone(e, r, resp) : r \in Requests, resp \in EvalResponses}
    \cup {EvWriteOkDone(e, r) : r \in Requests}
    \cup {EvSleepDone(e, r) : r \in Requests}
    \cup {EvWriteFailDone(e, r) : r \in Requests}
    \cup {EvPostStop(e)}
    \cup {EvStartBackgroundFilter(e, l) : l \in Loops}
    \cup {EvStopBackgroundFilter(e)}
    \cup {EvBgFetchDone(e, l) : l \in Loops}
    \cup {EvBgClassifyDone(e, l, resp) : l \in Loops, resp \in EvalResponses}
    \cup {EvBgWriteOkDone(e, l) : l \in Loops}
    \cup {EvBgWriteFailDone(e, l) : l \in Loops}
    \cup {EvBgSleepDone(e, l) : l \in Loops})

\* ------------------------------------------ the two stages side by side
\* The renaming of the triage stage to the evaluation stage: fields, result
\* members and the text of the failure reason.
RenameRow(row) ==
  [exists |-> row.exists, isEvaluated |-> row.isTriaged,
   isOpportunity |-> row.passedTriage, opportunityScore |-> row.triageScore,
   opportunityReason |-> IF row.triageReason = Some("Triage failed")
                         THEN Some("Evaluation failed")
                         ELSE row.triageReason,
   evaluatedAt |-> row.triagedAt]

RenameResult(res) ==
  [isOpportunity |-> res.passedTriage, score |-> res.score,
   reason |-> res.reason]

RenameRun(run) ==
  [pc |-> run.pc, page |-> run.page, idx |-> run.idx,
   evaluated |-> run.triaged, opportunities |-> run.passed,
   result |-> RenameResult(run.result), status |-> run.status,
   stopped |-> run.stopped]

RenameLoop(loop) ==
  [pc |-> loop.pc, post |-> loop.post, result |-> RenameResult(loop.result)]

RenameResponse(resp) ==
  [route |-> resp.route, req |-> resp.req, status |-> resp.status,
   evaluated |-> resp.triaged, opportunities |-> resp.passed,
   stopped |-> resp.stopped]

\* the state e of the evaluation stage is the renamed state of the triage
\* stage
SyncWith(e) ==
  /\ e.posts = [p \in PostIds |-> RenameRow(posts[p])]
  /\ e.isFiltering = isTriaging
  /\ e.stopRequested = stopRequested
  /\ e.backgroundFilterRunning = backgroundTriageRunning
  /\ e.runs = [r \in Requests |-> RenameRun(runs[r])]
  /\ e.loops = [l \in Loops |-> RenameLoop(loops[l])]
  /\ e.response = RenameResponse(response)
  /\ e.faultsLeft = faultsLeft

InSync == SyncWith(ev)

\* the variables of the triage stage and of the other handlers
triageVars ==
  <<posts, config, batchVars, backgroundVars, response, faultsLeft,
    statusCall, collects, subreddits, niches>>

\* a step of the triage stage
TriageStep ==
  \/ \E r \in Requests : PostFilter(r)
  \/ \E r \in Requests : FetchDone(r)
  \/ \E r \in Requests : \E resp \in CountResponses : ClassifyDone(r, resp)
  \/ \E r \in Requests : WriteOkDone(r)
  \/ \E r \in Requests : SleepDone(r)
  \/ \E r \in Requests : WriteFailDone(r)
  \/ PostStop
  \/ \E l \in Loops : startBackgroundTriage(l)
  \/ stopBackgroundTriage
  \/ \E l \in Loops : BgFetchDone(l)
  \/ \E l \in Loops : \E resp \in CountResponses : BgClassifyDone(l, resp)
  \/ \E l \in Loops : BgWriteOkDone(l)
  \/ \E l \in Loops : BgWriteFailDone(l)
  \/ \E l \in Loops : BgSleepDone(l)

\* the triage stage takes a step first
TriageLeads == InSync /\ ev.lead = "none" /\ TriageStep

\* the evaluation stage follows with a step that leads to the renamed state
EvalFollows ==
  /\ ~InSync
  /\ ev.lead = "none"
  /\ ev' \in {e \in EvSteps(ev) : SyncWith(e)}
  /\ UNCHANGED triageVars

\* the evaluation stage takes a step first
EvalLeads ==
  /\ InSync
  /\ ev.lead = "none"
  /\ \E e \in EvSteps(ev) : ev' = [e EXCEPT !.lead = "eval"]
  /\ UNCHANGED triageVars

\* the triage stage follows with a step that leads to the renamed state
TriageFollows ==
  /\ ev.lead = "eval"
  /\ ~InSync
  /\ TriageStep
  /\ InSync'

\* the two stages are level again after a step the evaluation stage led
EvalLevel ==
  /\ ev.lead = "eval"
  /\ InSync
  /\ ev' = [ev EXCEPT !.lead = "none"]
  /\ UNCHANGED triageVars

\* both stages start on the same posts, each absent or pending
InitTwin ==
  /\ posts \in [PostIds -> {AbsentRow, NewRow}]
  /\ envKey = TRUE
  /\ GEMINI_API_KEY = TRUE
  /\ TRIAGE_BATCH_SIZE = MaxBatchSize
  /\ isTriaging = FALSE
  /\ stopRequested = FALSE
  /\ backgroundTriageRunning = FALSE
  /\ runs = [r \in Requests |-> IdleRun]
  /\ loops = [l \in Loops |-> NoLoop]
  /\ response = NoResponse
  /\ faultsLeft = MaxFaults
  /\ statusCall = NoStatusCall
  /\ collects = [c \in Collections |-> IdleCollect]
  /\ subreddits = [s \in Subs |-> NoSubreddit]
  /\ ev = [EvInit EXCEPT !.posts = [p \in PostIds |-> RenameRow(posts[p])]]
  /\ niches = NoNiches

NextTwin ==
  \/ TriageLeads
  \/ EvalFollows
  \/ EvalLeads
  \/ TriageFollows
  \/ EvalLevel

SpecTwin == InitTwin /\ [][NextTwin]_vars

\* The niche routes alone, over a posts table that holds collected posts.
InitNiche ==
  /\ posts = [p \in PostIds |-> AbsentRow]
  /\ envKey = TRUE
  /\ GEMINI_API_KEY = TRUE
  /\ TRIAGE_BATCH_SIZE = MaxBatchSize
  /\ isTriaging = FALSE
  /\ stopRequested = FALSE
  /\ backgroundTriageRunning = FALSE
  /\ runs = [r \in Requests |-> IdleRun]
  /\ loops = [l \in Loops |-> NoLoop]
  /\ response = NoResponse
  /\ faultsLeft = MaxFaults
  /\ statusCall = NoStatusCall
  /\ collects = [c \in Collections |-> IdleCollect]
  /\ subreddits = [s \in Subs |-> NoSubreddit]
  /\ ev = EvInit
  /\ niches \in [rows : [NicheIds -> {NoNicheRow, PlainPostRow}],
                 calls : {[c \in NicheCalls |-> NoNicheCall]}]

NextNiche ==
  \/ \E c \in NicheCalls : \E parentPostId \in {Null} \cup {Some(i) : i \in NicheIds} :
       \E hasText \in BOOLEAN : PostNiche(c, parentPostId, hasText)
  \/ \E c \in NicheCalls : NicheFindDone(c)
  \/ \E c \in NicheCalls : NicheCreateDone(c)

SpecNiche == InitNiche /\ [][NextNiche]_vars

\* ------------------------------------------------------------------ claims
Range(seq) == {seq[i] : i \in 1..Len(seq)}

IntegerScores == {Some(n) : n \in 0..10}

TriageFields(row) ==
  <<row.isTriaged, row.passedTriage, row.triageScore, row.triageReason,
    row.triagedAt>>

IsPending(row) ==
  /\ ~row.isTriaged
  /\ row.passedTriage = Null /\ row.triageScore = Null
  /\ row.triageReason = Null /\ row.triagedAt = Null

IsClassified(row) ==
  /\ row.isTriaged
  /\ row.passedTriage \in {Some(TRUE), Some(FALSE)}
  /\ row.triageScore \in IntegerScores
  /\ row.triageReason # Null /\ row.triageReason # Some("")
  /\ row.triagedAt # Null

IsFailed(row) ==
  /\ row.isTriaged
  /\ row.passedTriage = Null /\ row.triageScore = Null
  /\ row.triageReason = Some("Triage failed")
  /\ row.triagedAt # Null

\* C1: at most one batch run is active in every state, and a start request
\* made while a run is active is answered 409 and starts no run.
C1_SingleFlight ==
  [][/\ Cardinality(ActiveRuns') <= 1
     /\ \A r \in Requests :
          (runs[r].pc = "idle" /\ ActiveRuns # {})
            => /\ runs'[r].pc = "idle"
               /\ (response'.route = "filter" /\ response'.req = r)
                    => response'.status = 409]_vars

C1_Witness ==
  /\ response.route = "filter" /\ response.status = 409
  /\ Cardinality(ActiveRuns) = 1

\* C2: a step that answers a start request with 409 leaves the running flag
\* true and changes neither the stop flag, nor any post, nor any run's
\* state (its counters, its fetches), nor the background runner.
C2_ConflictChangesNothing ==
  [][(response'.route = "filter" /\ response'.status = 409)
       => /\ isTriaging /\ isTriaging'
          /\ UNCHANGED <<posts, stopRequested, runs, backgroundVars, config, sideVars,
                         faultsLeft>>]_vars

C2_Witness ==
  /\ response.route = "filter" /\ response.status = 409
  /\ stopRequested
  /\ \E r \in ActiveRuns : runs[r].triaged > 0 /\ runs[r].fetches > 0

\* C3: the running flag is true exactly while a run is between its start
\* and its end, whatever the exit (queue drained, stop, error thrown).
C3_FlagIffRunActive ==
  isTriaging <=> (ActiveRuns # {})

C3_Witness ==
  /\ GEMINI_API_KEY /\ envKey
  /\ response.route = "filter" /\ response.status = 500
  /\ ~isTriaging /\ ActiveRuns = {}

\* C4: no step sets isTriaged of a post back to false.
C4_TriagedMonotonic ==
  [][\A p \in PostIds : posts[p].isTriaged => posts'[p].isTriaged]_vars

C4_Witness ==
  \E p \in PostIds : posts[p].isTriaged /\ posts[p].isFlagged

\* C5: every stored post is Pending, Classified (with a non-empty reason and
\* an integer score in 0..10) or Failed.
C5_ThreeShapes ==
  \A p \in PostIds :
    posts[p].exists =>
      IsPending(posts[p]) \/ IsClassified(posts[p]) \/ IsFailed(posts[p])

\* C6: once a post is triaged, no step changes its triage fields.
C6_WrittenOnce ==
  [][\A p \in PostIds :
       posts[p].isTriaged => TriageFields(posts'[p]) = TriageFields(posts[p])]_vars

\* C7: a batch run never has in its page, and never writes, a post that was
\* already triaged when the run started.
C7_NeverSelectsTerminal ==
  \A r \in Requests :
    \A p \in runs[r].startTriaged :
      p \notin Range(runs[r].page) /\ p \notin Range(runs[r].wrote)

C7_Witness ==
  \E r \in ActiveRuns :
    /\ runs[r].startTriaged # {}
    /\ runs[r].wrote # <<>>

\* C8: the score persisted from a classifier answer is an integer in 0..10.
C8_ScoreInRange ==
  \A p \in PostIds :
    (posts[p].isTriaged /\ posts[p].passedTriage # Null)
      => posts[p].triageScore \in IntegerScores

\* C9: when the update a batch run issued for post P is applied after the
\* classifier threw or answered without a required member, P is stored as
\* Failed, no error response is sent, and the next post of the page (if the
\* run is not stopped) is the one being classified.
C9_FailSafe ==
  [][\A r \in Requests :
       LET run == runs[r]
           p == run.page[run.idx]
       IN (/\ run.pc \in {"writeOk", "writeFail"}
           /\ run.pc = "writeOk" => run.missing
           /\ runs'[r] # run
           /\ posts'[p] # posts[p])
            => /\ IsFailed(posts'[p])
               /\ response'.status # 500
               /\ (run.idx < Len(run.page) /\ ~stopRequested)
                    => /\ runs'[r].pc = "classify"
                       /\ runs'[r].idx = run.idx + 1]_vars

\* C10: when a stop request has been made while a run is in the delay after
\* post K of its page, the run's next step answers 200 with stopped = true
\* and its counters, fetches no page and writes no post; posts 1..K of the
\* page are the last K posts the run wrote and are triaged, and posts K+1..N
\* were not written by the run.
C10_StopAfterK ==
  [][\A r \in Requests :
       LET run == runs[r]
           K == run.idx
           n == Len(run.wrote)
       IN (run.pc = "sleep" /\ stopRequested /\ runs'[r] # run)
            => /\ runs'[r] = IdleRun
               /\ response' = [route |-> "filter", req |-> r, status |-> 200,
                               triaged |-> run.triaged, passed |-> run.passed,
                               stopped |-> TRUE]
               /\ posts' = posts
               /\ n >= K
               /\ SubSeq(run.wrote, n - K + 1, n) = SubSeq(run.page, 1, K)
               /\ \A j \in 1..K : posts[run.page[j]].isTriaged
               /\ \A j \in (K + 1)..Len(run.page) :
                    run.page[j] \notin Range(run.wrote)]_vars

C10_Witness ==
  \E r \in Requests :
    /\ runs[r].pc = "sleep" /\ stopRequested
    /\ runs[r].idx >= 1 /\ runs[r].idx < Len(runs[r].page)
    /\ \E j \in (runs[r].idx + 1)..Len(runs[r].page) :
         ~posts[runs[r].page[j]].isTriaged

\* C11: batch cancellation is cooperative.  When the stop flag is set while
\* the classifier call or the write for post K of a run is in flight, the
\* flag stays set, the in-flight work goes on for the same post, and (the
\* datastore accepting the write) post K gets its terminal record; the run
\* then issues no classifier call for another post and no page fetch: after
\* a classified write it takes the delay and returns with stopped = TRUE,
\* after a failed write it returns with stopped = TRUE at once.
C11_CooperativeStop ==
  [][\A r \in Requests :
       LET run == runs[r]
           K == run.page[run.idx]
       IN /\ (/\ run.pc \in {"classify", "writeOk", "writeFail"}
               /\ stopRequested
               /\ runs'[r] # run)
              => /\ stopRequested'
                 /\ runs'[r].pc \notin {"fetch", "classify"}
                 /\ runs'[r].pc \in {"writeOk", "writeFail"}
                      => /\ runs'[r].page = run.page
                         /\ runs'[r].idx = run.idx
                         /\ posts' = posts
                 /\ runs'[r].pc = "sleep"
                      => /\ run.pc = "writeOk"
                         /\ posts'[K].isTriaged
                         /\ runs'[r].wrote = Append(run.wrote, K)
                         /\ runs'[r].idx = run.idx
                 /\ (runs'[r].pc = "idle" /\ faultsLeft' = faultsLeft)
                      => /\ run.pc = "writeFail"
                         /\ IsFailed(posts'[K])
                         /\ response' =
                              [route |-> "filter", req |-> r, status |-> 200,
                               triaged |-> run.triaged + 1,
                               passed |-> run.passed, stopped |-> TRUE]
          /\ (run.pc = "sleep" /\ stopRequested /\ runs'[r] # run)
              => /\ runs'[r] = IdleRun
                 /\ posts' = posts
                 /\ response'.status = 200
                 /\ response'.stopped]_vars

\* a run has returned stopped = TRUE having written one post, as Failed,
\* while another post is still pending: the stop request arrived while that
\* post's classifier call or write was in flight
C11_Witness ==
  /\ response.route = "filter"
  /\ response.status = 200
  /\ response.stopped
  /\ response.triaged = 1
  /\ response.passed = 0
  /\ \E p \in PostIds : IsFailed(posts[p])
  /\ PendingIds(posts) # {}

C13_EmptyPageNotStopped ==
  [][\A r \in Requests :
       (/\ runs[r].pc = "fetch"
        /\ findMany(posts) = <<>>
        /\ runs'[r] = IdleRun
        /\ response'.status = 200)
         => ~response'.stopped]_vars

\* C14: a run that returns without error and with stopped = FALSE returns
\* from a page fetch that found no pending post, whatever the number of
\* pages it processed before, so no post is pending when it returns.
C14_DrainsAllPages ==
  [][\A r \in Requests :
       (/\ runs[r].pc \in ActivePcs
        /\ runs'[r] = IdleRun
        /\ response'.status = 200
        /\ ~response'.stopped)
         => /\ runs[r].pc = "fetch"
            /\ findMany(posts) = <<>>
            /\ PendingIds(posts') = {}]_vars

\* a run has returned stopped = FALSE after processing more posts than fit
\* in one page
C14_Witness ==
  /\ response.route = "filter"
  /\ response.status = 200
  /\ ~response.stopped
  /\ response.triaged > TRIAGE_BATCH_SIZE
  /\ PendingIds(posts) = {}

\* C15: a stop request made while no batch run is active is answered 400
\* and leaves the stop flag as it was; the flag is FALSE when a run starts;
\* it becomes TRUE only by a stop request accepted while a run is active;
\* and a run reports stopped = TRUE only if the flag is set when it returns.
\* So a stop request made before a run started never stops that run.
C15_StaleStopIgnored ==
  [][/\ (response'.route = "stop" /\ ActiveRuns = {})
          => /\ response'.status = 400
             /\ stopRequested' = stopRequested
     /\ (\E r \in Requests : runs[r].pc = "idle" /\ runs'[r].pc # "idle")
          => ~stopRequested'
     /\ (~stopRequested /\ stopRequested')
          => /\ response'.route = "stop"
             /\ response'.status = 200
             /\ ActiveRuns # {}
     /\ (response'.route = "filter" /\ response'.status = 200
          /\ response'.stopped)
          => stopRequested]_vars

\* a stop request is rejected while the flag left by a stop request of an
\* earlier run is still set
C15_Witness ==
  /\ response.route = "stop"
  /\ response.status = 400
  /\ stopRequested
  /\ ActiveRuns = {}
  /\ TriagedIds(posts) # {}

LiveLoops == {l \in DOMAIN loops : loops[l].pc # "none"}

\* C16: while the background runner is Running no further activation of
\* the loop begins, and a call of startBackgroundTriage() leaves the running
\* flag TRUE and changes neither the activations nor any post.
C16_StartIsIdempotent ==
  [][backgroundTriageRunning
       => /\ \A l \in DOMAIN loops :
               loops[l].pc = "none" => loops'[l].pc = "none"
          /\ (\E l \in DOMAIN loops : startBackgroundTriage(l))
               => /\ backgroundTriageRunning'
                  /\ loops' = loops
                  /\ posts' = posts
                  /\ faultsLeft' = faultsLeft]_vars

\* the runner is Running with one activation, in the middle of a post, and
\* room for another activation
C16_Witness ==
  /\ backgroundTriageRunning
  /\ Cardinality(LiveLoops) = 1
  /\ \E l \in LiveLoops : loops[l].pc = "classify"
  /\ TriagedIds(posts) # {}

\* C17: stopBackgroundTriage() clears the running flag at once, and an
\* activation that was in its loop when it was called goes on with the post
\* in flight but, once it reaches the delay that ends its iteration, leaves
\* the loop: it fetches no more, whatever start and stop calls follow.
C17_StoppedLoopExits ==
  [][/\ (\E l \in DOMAIN loops : loops'[l].stopCalled /\ ~loops[l].stopCalled)
          => ~backgroundTriageRunning'
     /\ \A l \in DOMAIN loops :
          (/\ loops[l].stopCalled
           /\ loops[l].pc \in SleepPcs
           /\ loops'[l].pc # loops[l].pc)
            => loops'[l].pc = "none"]_vars

\* C18: without the credential a start-batch request is answered 500 and
\* starts nothing, startBackgroundTriage() leaves the runner not running,
\* neither flag nor any run or activation changes, no post's triage fields
\* change, and the status route still answers, with isConfigured = FALSE.
C18_DisabledWithoutKey ==
  [][~envKey
       => /\ \A p \in PostIds : TriageFields(posts'[p]) = TriageFields(posts[p])
          /\ ~isTriaging'
          /\ ~backgroundTriageRunning'
          /\ stopRequested' = stopRequested
          /\ runs' = runs
          /\ loops' = loops
          /\ response'.route = "filter" => response'.status = 500
          /\ (response'.route = "status" /\ response'.status = 200)
               => /\ ~response'.isConfigured
                  /\ ~response'.isRunning
                  /\ ~response'.isBackgroundRunning]_vars

\* a start-batch request has been answered 500 with no credential while a
\* post is pending
C18_Witness ==
  /\ ~envKey
  /\ response.route = "filter"
  /\ response.status = 500
  /\ PendingIds(posts) # {}
  /\ ~isTriaging
  /\ ~backgroundTriageRunning

\* C19: an activation whose fetch finds no pending post goes to the idle
\* delay without a classifier call or a write; when the delay elapses it
\* fetches again if the runner is still Running; and a fetch that finds
\* pending posts, such as one created during the delay, goes on to classify
\* the newest of them.
C19_IdlePolling ==
  [][\A l \in DOMAIN loops :
       LET loop == loops[l] IN
       /\ (/\ loop.pc = "fetch"
           /\ PendingIds(posts) = {}
           /\ faultsLeft' = faultsLeft
           /\ loops'[l].pc # loop.pc)
            => /\ loops'[l].pc = "idleSleep"
               /\ posts' = posts
       /\ (loop.pc = "idleSleep" /\ loops'[l].pc # loop.pc)
            => /\ posts' = posts
               /\ loops'[l].pc =
                    IF backgroundTriageRunning THEN "fetch" ELSE "none"
       /\ (/\ loop.pc = "fetch"
           /\ PendingIds(posts) # {}
           /\ faultsLeft' = faultsLeft
           /\ loops'[l].pc # loop.pc)
            => /\ loops'[l].pc = "classify"
               /\ loops'[l].post = Some(findFirst(posts)[1])
               /\ posts' = posts]_vars

\* an activation is in its idle delay, the runner is Running, and a post
\* has become pending
C19_Witness ==
  /\ backgroundTriageRunning
  /\ PendingIds(posts) # {}
  /\ \E l \in DOMAIN loops : loops[l].pc = "idleSleep"

\* C20: a datastore fault met by an activation of the background loop
\* never ends the activation and never changes the running flag: a failing
\* classified write turns into the failed write, a failing fetch or failed
\* write into the error delay, and when that delay elapses the activation
\* fetches again unless the runner was stopped.
C20_FaultBackoff ==
  [][\A l \in DOMAIN loops :
       LET loop == loops[l] IN
       /\ (loops'[l].pc # loop.pc /\ faultsLeft' < faultsLeft)
            => /\ backgroundTriageRunning' = backgroundTriageRunning
               /\ posts' = posts
               /\ loops'[l].pc =
                    IF loop.pc = "writeOk" THEN "writeFail" ELSE "errSleep"
       /\ (loop.pc = "errSleep" /\ loops'[l].pc # loop.pc)
            => /\ backgroundTriageRunning' = backgroundTriageRunning
               /\ loops'[l].pc =
                    IF backgroundTriageRunning THEN "fetch" ELSE "none"]_vars

\* an activation is in the error delay after a fault, the runner Running
C20_Witness ==
  /\ backgroundTriageRunning
  /\ faultsLeft < MaxFaults
  /\ \E l \in DOMAIN loops : loops[l].pc = "errSleep"

\* C21: when a page fetch of a batch run is rejected, the run ends, the
\* caller gets a 500 and no result, no post changes (so every write the run
\* made before stays), and isTriaging is released.
C21_FetchFailureEndsRun ==
  [][\A r \in Requests :
       (/\ runs[r].pc = "fetch"
        /\ runs'[r] # runs[r]
        /\ faultsLeft' < faultsLeft)
         => /\ runs'[r] = IdleRun
            /\ response' = [NoResponse EXCEPT !.route = "filter", !.req = r,
                                               !.status = 500]
            /\ ~isTriaging'
            /\ posts' = posts
            /\ \A p \in Range(runs[r].wrote) : posts'[p].isTriaged]_vars

\* a run has ended with a 500 on a failed fetch after the posts of an
\* earlier page were written: they are triaged and nothing is pending
C21_Witness ==
  /\ response.route = "filter"
  /\ response.status = 500
  /\ envKey
  /\ faultsLeft < MaxFaults
  /\ ~isTriaging
  /\ TriagedIds(posts) # {}
  /\ PendingIds(posts) = {}

\* C22: when the update of post K is rejected because the row no longer
\* exists, the run is not aborted: the caller gets no 500, the post is
\* counted, and the run goes on.
C22_NotFoundContinues ==
  [][\A r \in Requests :
       LET run == runs[r]
           K == run.page[run.idx]
       IN (/\ run.pc \in {"writeOk", "writeFail"}
           /\ ~posts[K].exists
           /\ runs'[r] # run
           /\ faultsLeft' = faultsLeft)
            => /\ response'.status # 500
               /\ run.pc = "writeFail"
                    => \/ runs'[r].triaged = run.triaged + 1
                       \/ response'.triaged = run.triaged + 1]_vars

\* C23: each evaluation of a post writes its row once, after the classifier
\* call has completed.  A runner changes no post while it fetches, while
\* its classifier call is in flight or while it sleeps; when its update
\* resolves the row gets the classified or the failed record and the runner
\* leaves the post; a rejected classified update changes nothing and is
\* followed by the failed update, a rejected failed update changes nothing
\* and ends the evaluation; and the triage fields of a row change only by
\* the update of a runner that holds the post.
C23_OneWriteAfterClassify ==
  [][/\ \A r \in Requests :
          LET run == runs[r]
              K == run.page[run.idx]
          IN /\ (run.pc \in {"fetch", "classify", "sleep"} /\ runs'[r] # run)
                  => posts' = posts
             /\ (run.pc = "writeOk" /\ runs'[r] # run)
                  => \/ /\ runs'[r].pc = "sleep"
                        /\ runs'[r].wrote = Append(run.wrote, K)
                        /\ posts' = [posts EXCEPT
                                       ![K] = ClassifiedData(@, run.result)]
                     \/ /\ runs'[r].pc = "writeFail"
                        /\ runs'[r].idx = run.idx
                        /\ runs'[r].wrote = run.wrote
                        /\ posts' = posts
             /\ (run.pc = "writeFail" /\ runs'[r] # run)
                  => \/ /\ posts' = [posts EXCEPT ![K] = FailedData(@)]
                        /\ runs'[r].pc \in {"classify", "fetch", "idle"}
                        /\ runs'[r].pc = "classify"
                             => runs'[r].idx = run.idx + 1
                     \/ /\ posts' = posts
                        /\ runs'[r] = IdleRun
                        /\ response'.status = 500
     /\ \A l \in DOMAIN loops :
          LET loop == loops[l] IN
          /\ (loop.pc \in {"fetch", "classify"} \cup SleepPcs
              /\ loops'[l].pc # loop.pc)
               => posts' = posts
          /\ (loop.pc = "writeOk" /\ loops'[l].pc # loop.pc)
               => \/ /\ loops'[l].pc = "postSleep"
                     /\ posts' = [posts EXCEPT ![The(loop.post)] =
                                    ClassifiedData(@, loop.result)]
                  \/ /\ loops'[l].pc = "writeFail"
                     /\ loops'[l].post = loop.post
                     /\ posts' = posts
          /\ (loop.pc = "writeFail" /\ loops'[l].pc # loop.pc)
               => \/ /\ loops'[l].pc = "postSleep"
                     /\ posts' = [posts EXCEPT ![The(loop.post)] =
                                    FailedData(@)]
                  \/ /\ loops'[l].pc = "errSleep"
                     /\ posts' = posts
     /\ \A p \in PostIds :
          TriageFields(posts'[p]) # TriageFields(posts[p])
            => \/ \E r \in Requests :
                    /\ runs[r].pc \in {"writeOk", "writeFail"}
                    /\ runs[r].page[runs[r].idx] = p
                    /\ runs'[r] # runs[r]
               \/ \E l \in DOMAIN loops :
                    /\ loops[l].pc \in {"writeOk", "writeFail"}
                    /\ loops[l].post = Some(p)
                    /\ loops'[l].pc # loops[l].pc]_vars

\* the batch run and the background loop have each evaluated one post and
\* are in the delay that follows the write
C23_Witness ==
  /\ \E r \in Requests :
       /\ runs[r].pc = "sleep"
       /\ IsClassified(posts[runs[r].page[runs[r].idx]])
  /\ \E l \in DOMAIN loops : loops[l].pc = "postSleep"
  /\ Cardinality(TriagedIds(posts)) = 2

\* C24: a runner takes posts newest createdUtc first and one at a time.
\* When a batch run calls the classifier for the post at position i of its
\* page, the page is in descending createdUtc order, its first post was the
\* newest pending post when fetched, no post of the run is in flight, and
\* the posts at positions 1..i-1 are triaged, written by this run in page
\* order.  When a background activation calls the classifier it comes from
\* its fetch with no post in flight and takes the newest pending post.
C24_NewestFirstOneAtATime ==
  [][/\ \A r \in Requests :
          (runs'[r].pc = "classify" /\ runs[r].pc # "classify")
            => LET run == runs'[r]
                   i == run.idx
                   n == Len(run.wrote)
               IN /\ runs[r].pc \in {"fetch", "sleep", "writeFail"}
                  /\ \A j, k \in 1..Len(run.page) :
                       j < k => createdUtc(run.page[j]) > createdUtc(run.page[k])
                  /\ runs[r].pc = "fetch"
                       => /\ i = 1
                          /\ \A q \in PendingIds(posts) :
                               createdUtc(q) <= createdUtc(run.page[1])
                  /\ runs[r].pc # "fetch" => i = runs[r].idx + 1
                  /\ n >= i - 1
                  /\ SubSeq(run.wrote, n - i + 2, n) = SubSeq(run.page, 1, i - 1)
                  /\ \A j \in 1..(i - 1) : posts'[run.page[j]].isTriaged
     /\ \A l \in DOMAIN loops :
          (loops'[l].pc = "classify" /\ loops[l].pc # "classify")
            => /\ loops[l].pc = "fetch"
               /\ loops[l].post = Null
               /\ loops'[l].post # Null
               /\ The(loops'[l].post) \in PendingIds(posts)
               /\ \A q \in PendingIds(posts) :
                    createdUtc(q) <= createdUtc(The(loops'[l].post))]_vars

\* a batch run is calling the classifier for the second post of its page,
\* the older one, and a background activation for the newest pending post
\* while an older post is pending
C24_Witness ==
  /\ \E r \in Requests :
       /\ runs[r].pc = "classify"
       /\ runs[r].idx = 2
       /\ posts[runs[r].page[1]].isTriaged
  /\ \E l \in DOMAIN loops : loops[l].pc = "classify"

RECURSIVE WeightedScores(_, _)
\* the sum of s times the number of rows of S with score s, for s in 0..top
WeightedScores(S, top) ==
  IF top < 0 THEN 0
  ELSE top * Cardinality({p \in S : posts[p].triageScore = Some(top)})
       + WeightedScores(S, top - 1)

\* C26: the status report of a table has total = the number of rows,
\* pending = the number of rows with isTriaged false, triaged = total -
\* pending, passed = the number of rows with passedTriage true, and
\* avgScore = the mean (sum over count) of triageScore over the triaged rows
\* with a score, null when there is none; rows without a score, the failed
\* ones among them, count neither in the sum nor in the count.
C26_StatusArithmetic ==
  (response.route = "status" /\ response.status = 200)
    => LET rows == {p \in DOMAIN posts : posts[p].exists}
           scored == {p \in rows : posts[p].isTriaged
                                    /\ posts[p].triageScore # Null}
       IN /\ response.total = Cardinality(rows)
          /\ response.pending =
               Cardinality({p \in rows : ~posts[p].isTriaged})
          /\ response.triaged = response.total - response.pending
          /\ response.passed =
               Cardinality({p \in rows : posts[p].passedTriage = Some(TRUE)})
          /\ response.avgScore =
               IF scored = {} THEN Null
               ELSE Some([sum |-> WeightedScores(scored, 10),
                          count |-> Cardinality(scored)])

\* 10 posts, 3 pending, 4 failed, scores 4, 7 and 9: avgScore is 20/3
C26_Witness ==
  /\ response.route = "status"
  /\ response.status = 200
  /\ response.total = 10
  /\ response.pending = 3
  /\ response.triaged = 7
  /\ response.passed = 2
  /\ response.avgScore = Some([sum |-> 20, count |-> 3])
  /\ Cardinality({p \in DOMAIN posts : IsFailed(posts[p])}) = 4

\* C27: in a batch run the classifier is called for a further post only
\* when the delay that follows the previous post has elapsed (or, for the
\* first post of a page, when the page fetch has resolved after that
\* delay): no classifier call follows the write of a post directly.
C27_DelayBetweenCalls ==
  [][\A r \in Requests :
       (runs'[r].pc = "classify" /\ runs[r].pc # "classify")
         => /\ runs[r].pc \in {"sleep", "fetch"}
            /\ runs[r].pc = "sleep" => runs'[r].idx = runs[r].idx + 1]_vars

\* C28: with no ingestion during the run and every call of the run
\* eventually returning, a batch run that has started eventually returns;
\* and it never writes the same post twice, since a post it has written is
\* triaged and is not fetched again.
C28_RunTerminates ==
  /\ \A r \in Requests : (runs[r].pc \in ActivePcs) ~> (runs[r].pc = "idle")
  /\ [](\A r \in Requests :
          \A i, j \in 1..Len(runs[r].wrote) :
            i # j => runs[r].wrote[i] # runs[r].wrote[j])

\* a run has returned after draining two posts
C28_Witness ==
  /\ response.route = "filter"
  /\ response.status = 200
  /\ response.triaged = 2
  /\ ActiveRuns = {}
  /\ PendingIds(posts) = {}

\* C25: while the background runner is Running, every pending post is
\* eventually written with a terminal state (or the runner is stopped),
\* whatever the classifier answers and whatever the collector creates.
C25_PendingEventuallyTerminal ==
  \A p \in PostIds :
    (p \in PendingIds(posts) /\ backgroundTriageRunning)
      ~> (posts[p].isTriaged \/ ~backgroundTriageRunning)

\* C29: the two runners are stopped independently.  A request to the stop
\* route changes neither the background running flag, nor an activation of
\* the background loop, nor a post; a step that clears the background
\* running flag changes neither the batch stop flag nor a batch run; the
\* start of a batch run changes neither the background running flag nor an
\* activation; an activation ends only when the background running flag is
\* FALSE; and a run reports stopped = TRUE only when the batch stop flag is
\* set.
C29_IndependentStop ==
  [][/\ response'.route = "stop"
          => UNCHANGED <<backgroundVars, posts, isTriaging, runs>>
     /\ (backgroundTriageRunning /\ ~backgroundTriageRunning')
          => UNCHANGED <<batchVars, posts>>
     /\ (\E r \in Requests : runs[r].pc = "idle" /\ runs'[r].pc # "idle")
          => UNCHANGED backgroundVars
     /\ \A l \in Loops :
          (loops[l].pc # "none" /\ loops'[l].pc = "none")
            => ~backgroundTriageRunning
     /\ (response'.route = "filter" /\ response'.stopped)
          => stopRequested]_vars

\* the batch stop has been accepted for an active run while the background
\* runner is Running and waits for the classifier
C29_Witness ==
  /\ response.route = "stop"
  /\ response.status = 200
  /\ ActiveRuns # {}
  /\ backgroundTriageRunning
  /\ \E l \in Loops : loops[l].pc = "classify"

\* C30: an accepted stop request takes effect on the run it was issued
\* against.  A stop request is answered 200 only while a run is active and
\* leaves the flag set; the flag once set stays set as long as that run is
\* active, whatever steps the run and other requests take; and the run,
\* when it returns without an error, returns stopped = TRUE.
C30_AcceptedStopTakesEffect ==
  [][/\ (response'.route = "stop" /\ response'.status = 200)
          => /\ stopRequested'
             /\ ActiveRuns # {}
             /\ runs' = runs
     /\ (stopRequested /\ ActiveRuns # {}) => stopRequested'
     /\ \A r \in Requests :
          (stopRequested /\ runs[r].pc \in ActivePcs /\ runs'[r] = IdleRun)
            => /\ response'.route = "filter"
               /\ response'.req = r
               /\ response'.status \in {200, 500}
               /\ response'.status = 200 => response'.stopped]_vars

\* a stop request accepted during the first page fetch has stopped the run
\* before its first post
C30_Witness ==
  /\ response.route = "filter"
  /\ response.status = 200
  /\ response.stopped
  /\ response.triaged = 0
  /\ PendingIds(posts) # {}

\* C31: whatever start and stop calls were made, at most one activation of
\* the background loop executes iterations: an activation begins a further
\* iteration (its delay elapses and it fetches again) only when no other
\* activation is in the loop.
C31_OneLoopIterates ==
  [][\A l \in DOMAIN loops :
       (loops[l].pc \in SleepPcs /\ loops'[l].pc = "fetch")
         => \A k \in DOMAIN loops \ {l} : loops[k].pc = "none"]_vars

\* C32: a missing credential is never recorded as a per-post failure.  The
\* value captured at load time and the value read from the environment agree;
\* a batch run or an activation of the background loop is in progress only
\* with the credential present; and a runner turns to the "Triage failed"
\* write only from a classifier call that threw or from a classified write
\* that was rejected, never straight from the fetch of the post.
C32_NoFailureForMissingKey ==
  [][/\ GEMINI_API_KEY' = envKey'
     /\ (ActiveRuns' # {} \/ LiveLoops' # {}) => GEMINI_API_KEY'
     /\ \A r \in Requests :
          (runs'[r].pc = "writeFail" /\ runs[r].pc # "writeFail")
            => runs[r].pc \in {"classify", "writeOk"}
     /\ \A l \in DOMAIN loops :
          (loops'[l].pc = "writeFail" /\ loops[l].pc # "writeFail")
            => loops[l].pc \in {"classify", "writeOk"}]_vars

\* without the credential both runners have refused to start and a pending
\* post is still pending
C32_Witness ==
  /\ ~envKey
  /\ ~GEMINI_API_KEY
  /\ PendingIds(posts) = PostIds
  /\ LiveLoops = {}
  /\ response.route = "filter"
  /\ response.status = 500

\* C33: the counters of a batch run count its terminal writes.  A step of
\* the run that stores a classified record adds one to triaged, and one to
\* passed exactly when the stored passedTriage is TRUE; a step that stores a
\* failed record adds one to triaged and nothing to passed; no other step
\* of the run changes a post or a counter; a run starts with both at zero;
\* and the result carries the counters, with 0 <= passed <= triaged.
C33_CountersCountWrites ==
  [][\A r \in Requests :
       LET run == runs[r]
           K == run.page[run.idx]
           returned == runs'[r].pc = "idle"
           triaged == IF returned THEN response'.triaged ELSE runs'[r].triaged
           passed == IF returned THEN response'.passed ELSE runs'[r].passed
           failed == response'.route = "filter" /\ response'.status = 500
       IN /\ (run.pc = "idle" /\ runs'[r].pc # "idle")
               => runs'[r].triaged = 0 /\ runs'[r].passed = 0
          /\ (run.pc \in ActivePcs /\ runs'[r] # run /\ failed)
               => posts' = posts
          /\ (run.pc \in ActivePcs /\ runs'[r] # run /\ ~failed)
               => /\ 0 <= passed /\ passed <= triaged
                  /\ returned => response'.status = 200
                  /\ IF run.pc = "writeOk" /\ runs'[r].pc = "sleep"
                     THEN /\ posts'[K].isTriaged
                          /\ posts'[K].passedTriage # Null
                          /\ triaged = run.triaged + 1
                          /\ passed = run.passed +
                               (IF posts'[K].passedTriage = Some(TRUE)
                                THEN 1 ELSE 0)
                     ELSE IF run.pc = "writeFail"
                     THEN /\ IsFailed(posts'[K])
                          /\ triaged = run.triaged + 1
                          /\ passed = run.passed
                     ELSE /\ posts' = posts
                          /\ triaged = run.triaged
                          /\ passed = run.passed]_vars

\* a run has returned {triaged: 2, passed: 1} after one passing and one
\* failed post
C33_Witness ==
  /\ response.route = "filter"
  /\ response.status = 200
  /\ response.triaged = 2
  /\ response.passed = 1
  /\ \E p \in PostIds : IsFailed(posts[p])

\* C34: the counts of a status report are mutually consistent whatever is
\* ingested or triaged while the four queries are in flight: triaged is not
\* negative and passed does not exceed triaged.
C34_ConsistentCounts ==
  (response.route = "status" /\ response.status = 200)
    => /\ response.triaged >= 0
       /\ response.passed <= response.triaged

\* the columns of a row that are not triage fields
OtherFields(row) == <<row.exists, row.subreddit, row.isFlagged>>

\* C35: a step of a batch run or of the background loop changes at most the
\* post the runner has in hand, and of that post only the five triage
\* fields: every other column of it and every other post stay as they were,
\* and no post is created or deleted by the step.
C35_WriteFrame ==
  [][/\ \A r \in Requests :
          runs'[r] # runs[r]
            => \A p \in PostIds :
                 /\ OtherFields(posts'[p]) = OtherFields(posts[p])
                 /\ posts'[p] # posts[p]
                      => /\ runs[r].pc \in {"writeOk", "writeFail"}
                         /\ p = runs[r].page[runs[r].idx]
     /\ \A l \in DOMAIN loops :
          loops'[l].pc # loops[l].pc
            => \A p \in PostIds :
                 /\ OtherFields(posts'[p]) = OtherFields(posts[p])
                 /\ posts'[p] # posts[p]
                      => /\ loops[l].pc \in {"writeOk", "writeFail"}
                         /\ loops[l].post = Some(p)]_vars

\* a batch run has stored the classification of a flagged post while
\* another stored post is pending
C35_Witness ==
  \E r \in ActiveRuns :
    \E p \in Range(runs[r].wrote) :
      /\ posts[p].isFlagged
      /\ IsClassified(posts[p])
      /\ \E q \in PendingIds(posts) : q # p

\* the number of times x occurs in the sequence s
Occurrences(s, x) == Cardinality({i \in 1..Len(s) : s[i] = x})

\* C36: ingestion deduplicates by reddit id, however the calls of collectAll
\* interleave.  A step of a call changes a post only by creating a row that
\* was absent, with the defaults of a new post, and this is the step that
\* counts it in newPosts; a stored post is changed by no step of the
\* collector; no post is created twice, by one call or by two; and a call
\* that has returned reports for each subreddit the number of posts it
\* created there, and their sum as totalNew.
C36_DedupByRedditId ==
  [][\A c \in Collections :
       collects'[c] # collects[c]
         => /\ \A p \in PostIds :
                 posts'[p] # posts[p]
                   => /\ ~posts[p].exists
                      /\ posts'[p] = NewRow
                      /\ collects'[c].created = Append(collects[c].created, p)
            /\ collects'[c].created # collects[c].created
                 => /\ collects[c].pc = "create"
                    /\ ~posts[collects[c].items[collects[c].i]].exists
                    /\ posts'[collects[c].items[collects[c].i]].exists
                    /\ collects'[c].totalNew + collects'[c].newPosts
                         >= Len(collects'[c].created)
            /\ \A p \in PostIds :
                 /\ \A d \in Collections :
                      Occurrences(collects'[d].created, p) <= 1
                 /\ Cardinality({d \in Collections :
                                   p \in Range(collects'[d].created)}) <= 1
            /\ collects'[c].pc = "done"
                 => /\ collects'[c].totalNew = Len(collects'[c].created)
                    /\ \A s \in Subs :
                         collects'[c].subredditResults[s] # Null
                           => The(collects'[c].subredditResults[s]).newPosts
                                = Occurrences(collects'[c].created, s)]_vars

\* two calls of collectAll have raced for the same feed item: one created
\* the post and the create of the other was rejected by the unique index
C36_Witness ==
  \E c, d \in Collections :
    \E p \in Range(collects[c].created) :
      /\ c # d
      /\ faultsLeft = MaxFaults
      /\ posts[p].subreddit
      /\ collects[d].subredditResults[p] # Null
      /\ The(collects[d].subredditResults[p]).errors = <<"Failed to save post">>
      /\ The(collects[d].subredditResults[p]).newPosts = 0

\* C37: a failure for one subreddit never aborts a collection run.  Once
\* the list of enabled subreddits is read the call of collectAll does not
\* throw; when it has returned, every subreddit of its list has a result; a
\* result whose subreddit was not collected to the end carries an error; and
\* lastFetchedAt of a subreddit is written only by a call that has fetched
\* its feed and gone through all its items, which the result records.
C37_FailureIsolated ==
  [][/\ \A c \in Collections :
          LET col == collects'[c] IN
          /\ collects[c].pc \notin {"idle", "list", "failed"}
               => col.pc # "failed"
          /\ col.pc = "done"
               => \A s \in Range(col.list) : col.subredditResults[s] # Null
          /\ \A s \in Subs :
               col.subredditResults[s] # Null
                 => LET res == The(col.subredditResults[s]) IN
                    /\ ~res.touched => res.errors # <<>>
                    /\ res.touched => "Failed to fetch feed" \notin Range(res.errors)
     /\ \A s \in Subs :
          subreddits'[s] # subreddits[s]
            => \E c \in Collections :
                 /\ collects[c].pc = "touch"
                 /\ CurrentSub(collects[c]) = s
                 /\ collects[c].i = Len(collects[c].items)
                 /\ collects[c].fetched = Len(collects[c].items)
                 /\ subreddits'[s].lastFetchedAt = Some(c)
                 /\ collects'[c].subredditResults[s] # Null
                 /\ The(collects'[c].subredditResults[s]).touched]_vars

\* a call of collectAll has returned: the collection of its first subreddit
\* failed, its second subreddit was collected with a new post
C37_Witness ==
  \E c \in Collections :
    /\ collects[c].pc = "done"
    /\ collects[c].list = <<1, 2>>
    /\ The(collects[c].subredditResults[1]).errors = <<"Failed to fetch feed">>
    /\ ~The(collects[c].subredditResults[1]).touched
    /\ The(collects[c].subredditResults[2]).touched
    /\ The(collects[c].subredditResults[2]).newPosts = 1
    /\ subreddits[1].lastFetchedAt = Null
    /\ subreddits[2].lastFetchedAt = Some(c)

\* C38: the evaluation stage and the triage stage are the same state machine
\* under the renaming of their fields.  Started on the same posts, whenever
\* the triage stage has taken a step (a start, a stop request, a classifier
\* outcome, a write, a delay, a start or stop of the background runner) the
\* evaluation stage has a step that leads to the renamed state, and whenever
\* the evaluation stage has taken a step the triage stage has one: the posts
\* end in the same states, the runs return the same counters and the same
\* stopped flag.
C38_SameStateMachine ==
  /\ (ev.lead = "none" /\ ~InSync) => \E e \in EvSteps(ev) : SyncWith(e)
  /\ (ev.lead = "eval" /\ ~InSync) => ENABLED (TriageStep /\ InSync')

\* the evaluation stage led the step that returned a run over two posts, one
\* an opportunity and one failed, and the triage stage has followed
C38_Witness ==
  /\ InSync
  /\ ev.lead = "eval"
  /\ ev.response.route = "filter"
  /\ ev.response.status = 200
  /\ ev.response.evaluated = 2
  /\ ev.response.opportunities = 1
  /\ \E p \in PostIds : ev.posts[p].opportunityReason = Some("Evaluation failed")
  /\ \E p \in PostIds : ev.posts[p].isOpportunity = Some(TRUE)

\* C39: in every reachable state each niche's parentPostId refers to a post
\* that exists and is not itself a niche.
C39_ParentIsNotNiche ==
  \A i \in NicheIds :
    (niches.rows[i].exists /\ niches.rows[i].isNiche)
      => /\ niches.rows[i].parentPostId # Null
         /\ niches.rows[The(niches.rows[i].parentPostId)].exists
         /\ ~niches.rows[The(niches.rows[i].parentPostId)].isNiche

====
